---- MODULE Spec2Model ----
(***************************************************************************)
(* Sample-name cleaning, FASTQ pair matching, sample grouping and metric   *)
(* merging of multiqc/base_module.py (BaseMultiqcModule).                  *)
(*                                                                         *)
(* A Python str is a sequence of one-character strings: "s_1" is           *)
(* <<"s", "_", "1">>.  An Optional value is a record [some, val].          *)
(* Floats are modelled as exact rationals [num, den].                      *)
(***************************************************************************)
EXTENDS Integers, Sequences, FiniteSets, TLC

\* config: the multiqc.config object.  loaded: the configuration as it was
\* loaded (a history variable, never read by an operation).  input: the data
\* the calling module holds.  call: the last call made and its outcome.
\* report: the multiqc.report object.
VARIABLES config, loaded, input, call, report, module_raw_data

vars == <<config, loaded, input, call, report, module_raw_data>>

(***************************************************************************)
(* Python values                                                           *)
(***************************************************************************)
None == [some |-> FALSE, val |-> <<>>]

Some(v) == [some |-> TRUE, val |-> v]

\* Code points of the characters the model uses (str comparison, sorted()).
Ord(c) ==
  CASE c = " " -> 32 [] c = "(" -> 40 [] c = ")" -> 41 [] c = "-" -> 45
    [] c = "." -> 46 [] c = "/" -> 47 [] c = "0" -> 48 [] c = "1" -> 49
    [] c = "2" -> 50 [] c = "N" -> 78 [] c = "R" -> 82 [] c = "_" -> 95
    [] c = "a" -> 97 [] c = "b" -> 98 [] c = "d" -> 100 [] c = "e" -> 101
    [] c = "g" -> 103 [] c = "n" -> 110 [] c = "o" -> 111 [] c = "p" -> 112
    [] c = "r" -> 114 [] c = "s" -> 115 [] c = "t" -> 116 [] c = "u" -> 117
    [] c = "x" -> 120 [] c = "y" -> 121 [] c = "z" -> 122 [] OTHER -> 127

Chars ==
  {" ", "(", ")", "-", ".", "/", "0", "1", "2", "N", "R", "_", "a", "b", "d",
   "e", "g", "n", "o", "p", "r", "s", "t", "u", "x", "y", "z"}

Digits == {"0", "1", "2"}

\* All strings over alphabet A of length at most n.
StringsUpTo(A, n) == UNION {[1..k -> A] : k \in 0..n}

(***************************************************************************)
(* str methods                                                             *)
(***************************************************************************)
StartsWith(s, p) == Len(p) <= Len(s) /\ SubSeq(s, 1, Len(p)) = p

EndsWith(s, p) == Len(p) <= Len(s) /\ SubSeq(s, Len(s) - Len(p) + 1, Len(s)) = p

\* p occurs in s at index i (1-based).
OccursAt(s, p, i) == i + Len(p) - 1 <= Len(s) /\ SubSeq(s, i, i + Len(p) - 1) = p

\* `p in s`
Contains(s, p) == \E i \in 1..(Len(s) + 1) : OccursAt(s, p, i)

\* Index of the first occurrence of p in s; 0 when there is none.
FindFirst(s, p) ==
  IF Contains(s, p)
    THEN CHOOSE i \in 1..(Len(s) + 1) :
           OccursAt(s, p, i) /\ \A j \in 1..(i - 1) : ~OccursAt(s, p, j)
    ELSE 0

RECURSIVE ReplaceFrom(_, _, _, _)
ReplaceFrom(s, p, r, i) ==
  IF i > Len(s) THEN (IF Len(p) = 0 THEN r ELSE <<>>)
  ELSE IF Len(p) = 0 THEN r \o <<s[i]>> \o ReplaceFrom(s, p, r, i + 1)
  ELSE IF OccursAt(s, p, i) THEN r \o ReplaceFrom(s, p, r, i + Len(p))
  ELSE <<s[i]>> \o ReplaceFrom(s, p, r, i + 1)

\* s.replace(p, r): every non-overlapping occurrence, left to right.
StrReplace(s, p, r) == ReplaceFrom(s, p, r, 1)

\* s.split(p, 1)[0] for a non-empty separator p.
SplitHead(s, p) == IF Contains(s, p) THEN SubSeq(s, 1, FindFirst(s, p) - 1) ELSE s

RECURSIVE LStrip(_)
LStrip(s) == IF Len(s) > 0 /\ s[1] = " " THEN LStrip(Tail(s)) ELSE s

RECURSIVE RStrip(_)
RStrip(s) ==
  IF Len(s) > 0 /\ s[Len(s)] = " " THEN RStrip(SubSeq(s, 1, Len(s) - 1)) ELSE s

\* s.strip()
Strip(s) == LStrip(RStrip(s))

RECURSIVE Basename(_)
\* os.path.basename(s): what follows the last "/".
Basename(s) ==
  IF Contains(s, <<"/">>) THEN Basename(SubSeq(s, FindFirst(s, <<"/">>) + 1, Len(s)))
  ELSE s

RECURSIVE StrLess(_, _)
\* s < t for Python str (code-point lexicographic).
StrLess(s, t) ==
  IF Len(t) = 0 THEN FALSE
  ELSE IF Len(s) = 0 THEN TRUE
  ELSE IF s[1] = t[1] THEN StrLess(Tail(s), Tail(t))
  ELSE Ord(s[1]) < Ord(t[1])

RECURSIVE JoinWith(_, _)
\* sep.join(parts)
JoinWith(sep, parts) ==
  IF Len(parts) = 0 THEN <<>>
  ELSE IF Len(parts) = 1 THEN parts[1]
  ELSE parts[1] \o sep \o JoinWith(sep, Tail(parts))

(***************************************************************************)
(* re: a pattern is a sequence of atoms, an atom the set of characters it  *)
(* matches (a literal is a singleton).                                     *)
(***************************************************************************)
MatchAt(atoms, s, i) ==
  /\ i + Len(atoms) - 1 <= Len(s)
  /\ \A k \in 1..Len(atoms) : s[i + k - 1] \in atoms[k]

\* A variant of ReSub that replaces the first match only (count = 1).
ReSub_FirstOnly(atoms, r, s) ==
  IF \E i \in 1..Len(s) : MatchAt(atoms, s, i)
    THEN LET i == CHOOSE i \in 1..Len(s) :
                    MatchAt(atoms, s, i) /\ \A j \in 1..(i - 1) : ~MatchAt(atoms, s, j)
         IN SubSeq(s, 1, i - 1) \o r \o SubSeq(s, i + Len(atoms), Len(s))
    ELSE s

RECURSIVE ReSubFrom(_, _, _, _)
ReSubFrom(atoms, r, s, i) ==
  IF i > Len(s) THEN (IF Len(atoms) = 0 THEN r ELSE <<>>)
  ELSE IF Len(atoms) = 0 THEN r \o <<s[i]>> \o ReSubFrom(atoms, r, s, i + 1)
  ELSE IF MatchAt(atoms, s, i) THEN r \o ReSubFrom(atoms, r, s, i + Len(atoms))
  ELSE <<s[i]>> \o ReSubFrom(atoms, r, s, i + 1)

\* re.sub(atoms, r, s): every non-overlapping match, left to right.
ReSub(atoms, r, s) == ReSubFrom(atoms, r, s, 1)

\* re.sub(atoms + "$", "", s): the match that ends the string, if any.
ReSubAtEnd(atoms, s) ==
  IF Len(atoms) <= Len(s) /\ MatchAt(atoms, s, Len(s) - Len(atoms) + 1)
    THEN SubSeq(s, 1, Len(s) - Len(atoms))
    ELSE s

(***************************************************************************)
(* _clean_fastq_pair                                                       *)
(***************************************************************************)
\* r"_R1_\d{3}$" and r"_R2_\d{3}$"
IlluminaTail(d) == <<{"_"}, {"R"}, {d}, {"_"}, Digits, Digits, Digits>>

\* r"_R1_" and r"_R2_"
MiddleToken(d) == <<{"_"}, {"R"}, {d}, {"_"}>>

\* re.sub(r"([_.-][rR]?1)?$", "", r): the optional group needs its
\* punctuation character; without a match of the group only the empty
\* string at the end is replaced.
MateSuffixAtoms(d) == <<{"_", ".", "-"}, {"r", "R"}, {d}>>

MateSuffixShortAtoms(d) == <<{"_", ".", "-"}, {d}>>

\* Mutant: the punctuation character of the mate suffix made optional.
TrimMateSuffix_OptionalPunct(r, d) ==
  IF ReSubAtEnd(MateSuffixAtoms(d), r) # r THEN ReSubAtEnd(MateSuffixAtoms(d), r)
  ELSE IF ReSubAtEnd(MateSuffixShortAtoms(d), r) # r
    THEN ReSubAtEnd(MateSuffixShortAtoms(d), r)
  ELSE IF ReSubAtEnd(<<{"r", "R"}, {d}>>, r) # r THEN ReSubAtEnd(<<{"r", "R"}, {d}>>, r)
  ELSE ReSubAtEnd(<<{d}>>, r)

TrimMateSuffix(r, d) ==
  IF ReSubAtEnd(MateSuffixAtoms(d), r) # r THEN ReSubAtEnd(MateSuffixAtoms(d), r)
  ELSE ReSubAtEnd(MateSuffixShortAtoms(d), r)

TrimIllumina(r, d) == ReSubAtEnd(IlluminaTail(d), r)

TrimMiddle(r, d) == ReSub(MiddleToken(d), <<"_">>, r)

\* Mutant: the middle-token heuristic tried before the Illumina tail.
CleanFastqPair_MiddleFirst(r1, r2) ==
  IF TrimMiddle(r1, "1") = TrimMiddle(r2, "2") THEN Some(TrimMiddle(r1, "1"))
  ELSE IF TrimIllumina(r1, "1") = TrimIllumina(r2, "2") THEN Some(TrimIllumina(r1, "1"))
  ELSE IF TrimMateSuffix(r1, "1") = TrimMateSuffix(r2, "2")
    THEN Some(TrimMateSuffix(r1, "1"))
  ELSE None

\* _clean_fastq_pair(r1, r2) -> Optional[str]
CleanFastqPair(r1, r2) ==
  IF TrimIllumina(r1, "1") = TrimIllumina(r2, "2") THEN Some(TrimIllumina(r1, "1"))
  ELSE IF TrimMiddle(r1, "1") = TrimMiddle(r2, "2") THEN Some(TrimMiddle(r1, "1"))
  ELSE IF TrimMateSuffix(r1, "1") = TrimMateSuffix(r2, "2")
    THEN Some(TrimMateSuffix(r1, "1"))
  ELSE None

(***************************************************************************)
(* Clean rules (config.fn_clean_exts entries).  A rule is a str (isstr) or *)
(* a dict with optional "type", "pattern" and "module" keys; an absent     *)
(* "pattern" reads as "" and an absent "type" as None (type = "none").     *)
(* module.kind is "absent", "str" or "list".                               *)
(***************************************************************************)
NoModule == [kind |-> "absent", val |-> <<>>]

StrRule(p) == [isstr |-> TRUE, type |-> "truncate", pattern |-> p, module |-> NoModule]

DictRule(t, p) == [isstr |-> FALSE, type |-> t, pattern |-> p, module |-> NoModule]

ScopedRule(t, p, k, mods) ==
  [isstr |-> FALSE, type |-> t, pattern |-> p, module |-> [kind |-> k, val |-> mods]]

\* The pattern language of the model: "." matches any character, "(" and
\* ")" only occur unbalanced (a pattern re cannot compile), any other
\* character is a literal.
ReMalformed(p) == \E i \in 1..Len(p) : p[i] \in {"(", ")"}

ReCompile(p) == [i \in 1..Len(p) |-> IF p[i] = "." THEN Chars ELSE {p[i]}]

ReHasMatch(atoms, s) == \E i \in 1..(Len(s) + 1) : MatchAt(atoms, s, i)

\* re.search(atoms, s).group(): the leftmost match.
ReSearchGroup(atoms, s) ==
  LET i == CHOOSE k \in 1..(Len(s) + 1) :
             MatchAt(atoms, s, k) /\ \A j \in 1..(k - 1) : ~MatchAt(atoms, s, j)
  IN  SubSeq(s, i, i + Len(atoms) - 1)

\* re.fullmatch(atoms, s)
ReFullMatch(atoms, s) == Len(atoms) = Len(s) /\ MatchAt(atoms, s, 1)

(***************************************************************************)
(* clean_s_name, scalar input                                              *)
(***************************************************************************)
\* Lines 677-689: f as the root (a str), or as a dict of find_log_files()
\* with the keys root, fn and sp_key.
ResolveF(f, root, filename, sp_key) ==
  IF f.kind = "str" THEN [root |-> Some(f.root), fn |-> filename, sp_key |-> sp_key]
  ELSE IF f.kind = "dict"
    THEN [root |-> IF root.some THEN root ELSE Some(f.root),
          fn |-> IF filename.some THEN filename ELSE Some(f.fn),
          sp_key |-> IF sp_key.some THEN sp_key ELSE Some(f.sp_key)]
  ELSE [root |-> root, fn |-> filename, sp_key |-> sp_key]

\* Lines 693-701: config.use_filename_as_sample_name is True, False or a
\* list of search pattern keys.
UseFilename(cfg, ctx) ==
  /\ ctx.fn.some
  /\ \/ cfg.use_filename_as_sample_name.all
     \/ /\ cfg.use_filename_as_sample_name.islist
        /\ ctx.sp_key.some
        /\ ctx.sp_key.val \in cfg.use_filename_as_sample_name.keys

RECURSIVE SplitAll(_, _)
\* s.split(sep) for a one-character separator.
SplitAll(s, sep) ==
  IF Contains(s, sep)
    THEN <<SubSeq(s, 1, FindFirst(s, sep) - 1)>>
           \o SplitAll(SubSeq(s, FindFirst(s, sep) + 1, Len(s)), sep)
    ELSE <<s>>

SelectSeqNonEmpty(parts) == SelectSeq(parts, LAMBDA d : d # <<>> /\ d # <<".">>)

\* Path(root).parts of a POSIX path.
PathParts(root) ==
  (IF StartsWith(root, <<"/">>) THEN <<(<<"/">>)>> ELSE <<>>)
    \o SelectSeqNonEmpty(SplitAll(root, <<"/">>))

StripEach(parts) == [i \in 1..Len(parts) |-> Strip(parts[i])]

\* Line 717
RootDirs(root) ==
  IF root.some /\ root.val # <<>>
    THEN StripEach(SelectSeq(PathParts(root.val), LAMBDA d : Strip(d) # <<>>))
    ELSE <<>>

\* A variant of LimitDirs that keeps the first components for a positive
\* depth too.
LimitDirs_FirstN(dirs, depth) ==
  IF depth = 0 THEN dirs
  ELSE IF depth > 0
    THEN SubSeq(dirs, 1, (IF Len(dirs) > depth THEN depth ELSE Len(dirs)))
    ELSE SubSeq(dirs, 1, (IF Len(dirs) > -depth THEN -depth ELSE Len(dirs)))

\* A variant of LimitDirs that drops the last components for a negative
\* depth.
LimitDirs_DropLast(dirs, depth) ==
  IF depth = 0 THEN dirs
  ELSE IF depth > 0
    THEN SubSeq(dirs, (IF Len(dirs) > depth THEN Len(dirs) - depth + 1 ELSE 1), Len(dirs))
    ELSE SubSeq(dirs, 1, (IF Len(dirs) > -depth THEN Len(dirs) + depth ELSE 0))

\* Lines 718-723: dirs[-depth:] for a positive depth, dirs[:-depth] for a
\* negative one.
LimitDirs(dirs, depth) ==
  IF depth = 0 THEN dirs
  ELSE IF depth > 0
    THEN SubSeq(dirs, (IF Len(dirs) > depth THEN Len(dirs) - depth + 1 ELSE 1), Len(dirs))
    ELSE SubSeq(dirs, 1, (IF Len(dirs) > -depth THEN -depth ELSE Len(dirs)))

\* Lines 724-725
JoinDirs(cfg, dirs, name) ==
  IF Len(dirs) > 0
    THEN JoinWith(cfg.prepend_dirs_sep, dirs) \o cfg.prepend_dirs_sep \o name
    ELSE name

\* Lines 715-725
PrependDirs(cfg, root, name) ==
  JoinDirs(cfg, LimitDirs(RootDirs(root), cfg.prepend_dirs_depth), name)

\* Mutant: the "module" value wrapped in a list on every call, a list
\* included, so that a second call finds a nested list.
NormaliseModule_AlwaysWraps(ext) ==
  IF ext.module.kind = "str" THEN [ext EXCEPT !.module.kind = "list"]
  ELSE IF ext.module.kind = "list" THEN [ext EXCEPT !.module.val = <<"[nested list]">>]
  ELSE ext

\* Lines 739-741: a str "module" of a dict rule is rewritten, in the rule
\* itself, as a one-element list.
NormaliseModule(ext) ==
  IF ext.module.kind = "str" THEN [ext EXCEPT !.module.kind = "list"] ELSE ext

\* Lines 739-743
RuleSkipped(ext, anchor) ==
  /\ ext.module.kind # "absent"
  /\ ~\E k \in 1..Len(ext.module.val) : ext.module.val[k] = anchor

\* Lines 745-764: one rule applied to the name; raised is "" or the name of
\* the exception that leaves clean_s_name.
ApplyRule(ext, name) ==
  IF ext.type = "truncate"
    THEN IF ext.pattern = <<>>
           THEN [raised |-> "ValueError", name |-> name]
           ELSE [raised |-> "", name |-> SplitHead(name, ext.pattern)]
  ELSE IF ext.type \in {"remove", "replace"}
    THEN [raised |-> "", name |-> StrReplace(name, ext.pattern, <<>>)]
  ELSE IF ext.type = "regex"
    THEN IF ReMalformed(ext.pattern)
           THEN [raised |-> "re.error", name |-> name]
           ELSE [raised |-> "", name |-> ReSub(ReCompile(ext.pattern), <<>>, name)]
  ELSE IF ext.type = "regex_keep"
    THEN IF ReMalformed(ext.pattern)
           THEN [raised |-> "re.error", name |-> name]
           ELSE [raised |-> "",
                 name |-> IF ReHasMatch(ReCompile(ext.pattern), name)
                            THEN ReSearchGroup(ReCompile(ext.pattern), name)
                            ELSE name]
  ELSE [raised |-> "", name |-> name]

RECURSIVE ApplyExts(_, _, _, _)

\* Lines 745-764 for rule i, whose outcome is r, and the rest of the loop.
AfterRule(exts, i, r, anchor) ==
  IF r.raised # ""
    THEN [raised |-> r.raised, name |-> r.name, exts |-> exts]
    ELSE ApplyExts(exts, i + 1, r.name, anchor)

\* Lines 737-764 for rule i, given as the loop body sees it after line 741.
WithRule(exts, i, ext, name, anchor) ==
  IF RuleSkipped(ext, anchor)
    THEN ApplyExts([exts EXCEPT ![i] = ext], i + 1, name, anchor)
    ELSE AfterRule([exts EXCEPT ![i] = ext], i, ApplyRule(ext, name), anchor)

\* Lines 731-764: the loop over fn_clean_exts from rule i on.  Returns the
\* name, the rule list as the loop leaves it and the exception, if any.
ApplyExts(exts, i, name, anchor) ==
  IF i > Len(exts) THEN [raised |-> "", name |-> name, exts |-> exts]
  ELSE WithRule(exts, i, NormaliseModule(exts[i]), name, anchor)

\* Lines 767-768: name[:-0] is the empty string.
TrimEnd(name, characters) ==
  IF EndsWith(name, characters)
    THEN (IF Len(characters) = 0 THEN <<>>
          ELSE SubSeq(name, 1, Len(name) - Len(characters)))
    ELSE name

\* Lines 769-770
TrimStart(name, characters) ==
  IF StartsWith(name, characters) THEN SubSeq(name, Len(characters) + 1, Len(name)) ELSE name

\* Lines 767-770: one trim rule.
TrimOne(name, characters) == TrimStart(TrimEnd(name, characters), characters)

RECURSIVE ApplyTrim(_, _, _)
ApplyTrim(trim, i, name) ==
  IF i > Len(trim) THEN name ELSE ApplyTrim(trim, i + 1, TrimOne(name, trim[i]))

\* A variant of ReplaceOne whose complete name swap replaces the matching
\* substring only.
ReplaceOne_PartialSwap(cfg, name, rule) ==
  IF cfg.sample_names_replace_regex
    THEN IF ReMalformed(rule.search) THEN name
         ELSE IF cfg.sample_names_replace_exact
                 /\ ~ReFullMatch(ReCompile(rule.search), name) THEN name
         ELSE ReSub(ReCompile(rule.search), rule.replace, name)
    ELSE IF cfg.sample_names_replace_exact /\ name # rule.search THEN name
         ELSE StrReplace(name, rule.search, rule.replace)

\* Lines 782-804: one --replace-names rule; a re.error is caught and logged.
ReplaceOne(cfg, name, rule) ==
  IF cfg.sample_names_replace_regex
    THEN IF ReMalformed(rule.search) THEN name
         ELSE IF cfg.sample_names_replace_exact
                 /\ ~ReFullMatch(ReCompile(rule.search), name) THEN name
         ELSE ReSub(ReCompile(rule.search), rule.replace, name)
    ELSE IF cfg.sample_names_replace_exact /\ name # rule.search THEN name
         ELSE IF cfg.sample_names_replace_complete
           THEN (IF Contains(name, rule.search) THEN rule.replace ELSE name)
         ELSE StrReplace(name, rule.search, rule.replace)

RECURSIVE ApplyReplace(_, _, _)
\* Lines 780-804
ApplyReplace(cfg, i, name) ==
  IF i > Len(cfg.sample_names_replace) THEN name
  ELSE ApplyReplace(cfg, i + 1, ReplaceOne(cfg, name, cfg.sample_names_replace[i]))

\* A variant of RevertIfEmpty that goes back to the basename of the input.
RevertIfEmpty_ToBasename(trimmed_name, original_name) ==
  IF trimmed_name = <<>> THEN Basename(original_name) ELSE trimmed_name

\* Lines 776-777
RevertIfEmpty(trimmed_name, original_name) ==
  IF trimmed_name = <<>> THEN original_name ELSE trimmed_name

\* clean_s_name for a str s_name; a holds the arguments f, root, filename
\* and search_pattern_key, and fn_clean_exts, fn_clean_trim and prepend_dirs
\* are given resolved (lines 707-712).  Returns the name, the rule list as
\* the call leaves it, and the exception that left the call.
\* Lines 714-725
PrependIf(cfg, root, prepend, name) ==
  IF prepend THEN PrependDirs(cfg, root, name) ELSE name

\* Lines 693-725: the name the rules are applied to, ctx being f, root,
\* filename and search_pattern_key as ResolveF leaves them.
StartName(cfg, s_name, ctx, prepend) ==
  PrependIf(cfg, ctx.root, prepend,
            Basename(IF UseFilename(cfg, ctx) THEN ctx.fn.val ELSE s_name))

\* Lines 727-764
RunRules(cfg, anchor, exts, name) ==
  IF cfg.fn_clean_sample_names
    THEN ApplyExts(exts, 1, name, anchor)
    ELSE [raised |-> "", name |-> name, exts |-> exts]

\* Lines 766-770
RunTrim(cfg, trim, name) ==
  IF cfg.fn_clean_sample_names THEN ApplyTrim(trim, 1, name) ELSE name

\* Lines 766-807, e being the outcome of the rules.
FinishName(cfg, s_name, trim, e) ==
  IF e.raised # ""
    THEN [raised |-> e.raised, name |-> <<>>, exts |-> e.exts]
    ELSE [raised |-> "",
          name |-> ApplyReplace(cfg, 1,
                                RevertIfEmpty(Strip(RunTrim(cfg, trim, e.name)), s_name)),
          exts |-> e.exts]

CleanScalar(cfg, anchor, s_name, a, exts, trim, prepend) ==
  FinishName(cfg, s_name, trim,
             RunRules(cfg, anchor, exts,
                      StartName(cfg, s_name, ResolveF(a.f, a.root, a.fn, a.sp_key),
                                prepend)))

(***************************************************************************)
(* clean_s_name, list input (lines 642-672)                                *)
(***************************************************************************)
RECURSIVE CleanEach(_, _, _, _, _, _, _, _, _)

\* Lines 648-660 for name i, r being the outcome of cleaning it.
AfterName(cfg, anchor, names, i, acc, ctx, r, trim, prepend) ==
  IF r.raised # "" THEN [raised |-> r.raised, names |-> acc, exts |-> r.exts]
  ELSE CleanEach(cfg, anchor, names, i + 1, Append(acc, r.name), ctx, r.exts, trim, prepend)

\* Lines 648-660: every name cleaned in turn with the same parameters; acc
\* is the list of cleaned names so far.
CleanEach(cfg, anchor, names, i, acc, ctx, exts, trim, prepend) ==
  IF i > Len(names) THEN [raised |-> "", names |-> acc, exts |-> exts]
  ELSE AfterName(cfg, anchor, names, i, acc, ctx,
                 CleanScalar(cfg, anchor, names[i], ctx, exts, trim, prepend),
                 trim, prepend)

SeqRange(q) == {q[i] : i \in 1..Len(q)}

\* Lines 661-672
RECURSIVE DistinctNames(_, _)
\* The names of a list without the repetitions, in order of first appearance.
DistinctNames(q, seen) ==
  IF Len(q) = 0 THEN <<>>
  ELSE IF Head(q) \in seen THEN DistinctNames(Tail(q), seen)
  ELSE <<Head(q)>> \o DistinctNames(Tail(q), seen \cup {Head(q)})

\* Lines 666-672, fastq_s_name being what _clean_fastq_pair returned.
PairOrJoin(clean_names, fastq_s_name) ==
  IF fastq_s_name.some THEN fastq_s_name.val ELSE JoinWith(<<"_">>, clean_names)

\* A variant of MergeCleanNames that joins each distinct clean name once.
MergeCleanNames_Distinct(clean_names) ==
  IF Cardinality(SeqRange(clean_names)) = 1 THEN clean_names[1]
  ELSE IF Len(clean_names) = 2
    THEN PairOrJoin(DistinctNames(clean_names, {}),
                    CleanFastqPair(clean_names[1], clean_names[2]))
  ELSE JoinWith(<<"_">>, DistinctNames(clean_names, {}))

\* Lines 661-672
MergeCleanNames(clean_names) ==
  IF Cardinality(SeqRange(clean_names)) = 1 THEN clean_names[1]
  ELSE IF Len(clean_names) = 2
    THEN PairOrJoin(clean_names, CleanFastqPair(clean_names[1], clean_names[2]))
  ELSE JoinWith(<<"_">>, clean_names)

\* Lines 661-672, r being the outcome of the loop over the names.
MergedName(r) ==
  IF r.raised # "" THEN [raised |-> r.raised, name |-> <<>>, exts |-> r.exts]
  ELSE [raised |-> "", name |-> MergeCleanNames(r.names), exts |-> r.exts]

CleanList(cfg, anchor, names, ctx, exts, trim, prepend) ==
  IF Len(names) = 0 THEN [raised |-> "ValueError", name |-> <<>>, exts |-> exts]
  ELSE MergedName(CleanEach(cfg, anchor, names, 1, <<>>, ctx, exts, trim, prepend))

NoF == [kind |-> "none"]

\* f, root, filename and search_pattern_key all left at their default None.
NoCtx == [f |-> NoF, root |-> None, fn |-> None, sp_key |-> None]

\* clean_s_name(s_name, f, root, filename, search_pattern_key) with the
\* default fn_clean_exts, fn_clean_trim and prepend_dirs (lines 707-712);
\* s_name is [list |-> BOOLEAN, val |-> a str or a list of str].
\* The outcome r of a call on config.fn_clean_exts, with the configuration
\* as the call leaves it.
OnConfig(cfg, r) ==
  [raised |-> r.raised, name |-> r.name, cfg |-> [cfg EXCEPT !.fn_clean_exts = r.exts]]

CleanSName(cfg, anchor, s_name, ctx) ==
  OnConfig(cfg,
           IF s_name.list
             THEN CleanList(cfg, anchor, s_name.val, ctx, cfg.fn_clean_exts,
                            cfg.fn_clean_trim, cfg.prepend_dirs)
             ELSE CleanScalar(cfg, anchor, s_name.val, ctx, cfg.fn_clean_exts,
                              cfg.fn_clean_trim, cfg.prepend_dirs))

(***************************************************************************)
(* groups_for_sample (lines 452-476)                                       *)
(***************************************************************************)
RECURSIVE GroupsFrom(_, _, _, _)

\* Lines 471-474: the label matched; c is the outcome of cleaning the rest
\* of the name.
Matched(label, c) ==
  [raised |-> c.raised, group |-> c.name, label |-> Some(label), cfg |-> c.cfg]

\* Lines 467-474 for entry i, r being the outcome of cleaning the name with
\* the entry's rules and cfg the configuration as that call leaves it.
AfterLabel(cfg, anchor, s_name, i, r) ==
  IF r.raised # ""
    THEN [raised |-> r.raised, group |-> s_name, label |-> None, cfg |-> cfg]
  ELSE IF r.name # s_name
    THEN Matched(cfg.generalstats_sample_merge_groups[i].label,
                 CleanSName(cfg, anchor, [list |-> FALSE, val |-> r.name], NoCtx))
  ELSE GroupsFrom(cfg, anchor, s_name, i + 1)

\* Lines 466-474 for entry i with a non-empty rule list.
TryLabel(cfg, anchor, s_name, i, r) ==
  AfterLabel([cfg EXCEPT !.generalstats_sample_merge_groups[i].exts = r.exts],
             anchor, s_name, i, r)

RECURSIVE GroupsFrom_LastFirst(_, _, _, _)
\* A variant of GroupsFrom that walks the labels from the last one to the
\* first.
GroupsFrom_LastFirst(cfg, anchor, s_name, i) ==
  IF i > Len(cfg.generalstats_sample_merge_groups)
    THEN [raised |-> "", group |-> s_name, label |-> None, cfg |-> cfg]
  ELSE LET j == Len(cfg.generalstats_sample_merge_groups) + 1 - i
           r == CleanScalar(cfg, anchor, s_name, NoCtx,
                            cfg.generalstats_sample_merge_groups[j].exts, <<>>, FALSE)
       IN  IF cfg.generalstats_sample_merge_groups[j].exts = <<>>
             THEN GroupsFrom_LastFirst(cfg, anchor, s_name, i + 1)
           ELSE IF r.raised # ""
             THEN [raised |-> r.raised, group |-> s_name, label |-> None, cfg |-> cfg]
           ELSE IF r.name # s_name
             THEN Matched(cfg.generalstats_sample_merge_groups[j].label,
                          CleanSName(cfg, anchor, [list |-> FALSE, val |-> r.name], NoCtx))
           ELSE GroupsFrom_LastFirst(cfg, anchor, s_name, i + 1)

\* The loop over config.generalstats_sample_merge_groups from entry i on.
GroupsFrom(cfg, anchor, s_name, i) ==
  IF i > Len(cfg.generalstats_sample_merge_groups)
    THEN [raised |-> "", group |-> s_name, label |-> None, cfg |-> cfg]
  ELSE IF cfg.generalstats_sample_merge_groups[i].exts = <<>>
    THEN GroupsFrom(cfg, anchor, s_name, i + 1)
  ELSE TryLabel(cfg, anchor, s_name, i,
                CleanScalar(cfg, anchor, s_name, NoCtx,
                            cfg.generalstats_sample_merge_groups[i].exts, <<>>, FALSE))

GroupsForSample(cfg, anchor, s_name) ==
  IF Len(cfg.generalstats_sample_merge_groups) = 0
    THEN [raised |-> "", group |-> s_name, label |-> None, cfg |-> cfg]
    ELSE GroupsFrom(cfg, anchor, s_name, 1)

(***************************************************************************)
(* group_samples_names (lines 478-509)                                     *)
(***************************************************************************)
RECURSIVE SortedSeq(_)
\* sorted(samples)
SortedSeq(S) ==
  IF S = {} THEN <<>>
  ELSE LET m == CHOOSE x \in S : \A y \in S \ {x} : StrLess(x, y)
       IN  <<m>> \o SortedSeq(S \ {m})

RECURSIVE ResolveAll(_, _, _, _, _)

\* Line 491, r being what groups_for_sample made of names[i].
AfterSample(anchor, names, i, acc, r) ==
  IF r.raised # "" THEN [raised |-> r.raised, resolved |-> acc, cfg |-> r.cfg]
  ELSE ResolveAll(r.cfg, anchor, names, i + 1,
                  Append(acc, [group |-> r.group, label |-> r.label,
                               original |-> names[i]]))

\* Lines 489-491: acc is the list of [group, label, original] in sorted
\* order of the original names.
ResolveAll(cfg, anchor, names, i, acc) ==
  IF i > Len(names) THEN [raised |-> "", resolved |-> acc, cfg |-> cfg]
  ELSE AfterSample(anchor, names, i, acc, GroupsForSample(cfg, anchor, names[i]))

RECURSIVE FirstSeen(_, _)
\* The distinct values of a list in order of first appearance (the key
\* order of a dict filled by appending).
FirstSeen(q, seen) ==
  IF Len(q) = 0 THEN <<>>
  ELSE IF Head(q) \in seen THEN FirstSeen(Tail(q), seen)
  ELSE <<Head(q)>> \o FirstSeen(Tail(q), seen \cup {Head(q)})

RECURSIVE Flatten(_)
Flatten(qq) == IF Len(qq) = 0 THEN <<>> ELSE Head(qq) \o Flatten(Tail(qq))

\* A variant of ByLabel that assigns the bucket instead of appending to it,
\* keeping the last name of each label.
ByLabel_KeepsLast(resolved) ==
  LET labels == FirstSeen([i \in 1..Len(resolved) |-> resolved[i].label], {})
  IN  [k \in 1..Len(labels) |->
         LET bucket == SelectSeq(resolved, LAMBDA e : e.label = labels[k])
         IN  bucket[Len(bucket)]]

\* A variant of ByLabel that keeps the names in their sorted order, without
\* bucketing them by label.
ByLabel_SortedOrder(resolved) == resolved

\* Lines 488-496: the resolved names bucketed by label, the buckets walked
\* in order of first appearance.
ByLabel(resolved) ==
  LET labels == FirstSeen([i \in 1..Len(resolved) |-> resolved[i].label], {})
  IN  Flatten([k \in 1..Len(labels) |->
                 SelectSeq(resolved, LAMBDA e : e.label = labels[k])])

\* str(label) inside an f-string.
LabelText(label) == IF label.some THEN label.val ELSE <<"N", "o", "n", "e">>

\* Line 503
DisplayName(group_name, label, n) ==
  IF n = 1 THEN group_name ELSE group_name \o <<" ", "(">> \o LabelText(label) \o <<")">>

\* Lines 493-509: the dict group name -> [(label, display name, original)],
\* as the list of its items in insertion order.
\* Lines 500-507: the members of one group, group being its (label, group
\* name, original name) entries.
Members(group_name, group) ==
  [j \in 1..Len(group) |->
     [label |-> group[j].label,
      s_name |-> DisplayName(group_name, group[j].label, Len(group)),
      original |-> group[j].original]]

\* Lines 499-509, names being the keys of group_by_merged_name.
GroupsOf(ordered, names) ==
  [k \in 1..Len(names) |->
     [group |-> names[k],
      members |-> Members(names[k], SelectSeq(ordered, LAMBDA e : e.group = names[k]))]]

\* Lines 493-496, ordered being the entries in the order of the loop.
MergedNames(ordered) ==
  GroupsOf(ordered, FirstSeen([i \in 1..Len(ordered) |-> ordered[i].group], {}))

ByMergedName(resolved) == MergedNames(ByLabel(resolved))

\* Lines 493-509, r being the outcome of the loop of lines 489-491.
NamedGroups(r) ==
  IF r.raised # "" THEN [raised |-> r.raised, groups |-> <<>>, cfg |-> r.cfg]
  ELSE [raised |-> "", groups |-> ByMergedName(r.resolved), cfg |-> r.cfg]

GroupSamplesNames(cfg, anchor, samples) ==
  NamedGroups(ResolveAll(cfg, anchor, SortedSeq(samples), 1, <<>>))

(***************************************************************************)
(* group_samples_and_average_metrics (lines 511-621)                       *)
(*                                                                         *)
(* A value is [t, num, den]: t is "num" (an int or a float, the rational   *)
(* num/den), "bool" (num is 1 or 0), "str" or "none".  A row's data is a   *)
(* function from its column keys to values; data_by_sample a function from *)
(* sample names to rows' data.                                             *)
(***************************************************************************)
NumV(n) == [t |-> "num", num |-> n, den |-> 1]

BoolV(b) == [t |-> "bool", num |-> IF b THEN 1 ELSE 0, den |-> 1]

StrV == [t |-> "str", num |-> 0, den |-> 1]

NoneV == [t |-> "none", num |-> 0, den |-> 1]

Ratio(n, d) == [t |-> "num", num |-> n, den |-> d]

\* isinstance(val, int) or isinstance(val, float): a bool is an int.
IsNumeric(val) == val.t \in {"num", "bool"}

RECURSIVE SumSeq(_)
SumSeq(q) == IF Len(q) = 0 THEN 0 ELSE Head(q) + SumSeq(Tail(q))

\* data_by_sample[original_s_name][col] raises KeyError for some member.
MissingCol(data, members, col) ==
  \E i \in 1..Len(members) : col \notin DOMAIN data[members[i].original]

\* Lines 551-555 and 599-609: the sum of the numeric values of a column.
ColSum(data, members, col) ==
  SumSeq([i \in 1..Len(members) |->
            IF IsNumeric(data[members[i].original][col])
              THEN data[members[i].original][col].num ELSE 0])

\* A variant of WeightedSum that adds the values without their weights.
WeightedSum_Unweighted(data, members, col, weight_col) ==
  SumSeq([i \in 1..Len(members) |->
            IF IsNumeric(data[members[i].original][col])
               /\ IsNumeric(data[members[i].original][weight_col])
              THEN data[members[i].original][col].num
              ELSE 0])

\* Lines 561-576: the sum of value * weight over the members.
WeightedSum(data, members, col, weight_col) ==
  SumSeq([i \in 1..Len(members) |->
            IF IsNumeric(data[members[i].original][col])
               /\ IsNumeric(data[members[i].original][weight_col])
              THEN data[members[i].original][col].num
                     * data[members[i].original][weight_col].num
              ELSE 0])

\* merged_row.data[col] = val
SetCol(row, col, val) == (col :> val) @@ row

WeightCols(policy) ==
  {policy.cols_to_weighted_average[i][2] : i \in 1..Len(policy.cols_to_weighted_average)}

RECURSIVE WeightedAverages(_, _, _, _, _)
\* Lines 557-578, from pair i on.
WeightedAverages(data, members, policy, i, row) ==
  IF i > Len(policy.cols_to_weighted_average) THEN [raised |-> "", data |-> row]
  ELSE LET col == policy.cols_to_weighted_average[i][1]
           weight_col == policy.cols_to_weighted_average[i][2]
           weight == ColSum(data, members, weight_col)
       IN  IF weight > 0
             THEN IF MissingCol(data, members, col)
                    THEN [raised |-> "KeyError", data |-> row]
                    ELSE WeightedAverages(data, members, policy, i + 1,
                           SetCol(row, col,
                                  Ratio(WeightedSum(data, members, col, weight_col), weight)))
             ELSE WeightedAverages(data, members, policy, i + 1, row)

RECURSIVE Averages(_, _, _, _, _)
\* Lines 580-592
Averages(data, members, policy, i, row) ==
  IF i > Len(policy.cols_to_average) THEN [raised |-> "", data |-> row]
  ELSE LET col == policy.cols_to_average[i]
       IN  IF MissingCol(data, members, col) THEN [raised |-> "KeyError", data |-> row]
           ELSE Averages(data, members, policy, i + 1,
                         SetCol(row, col, Ratio(ColSum(data, members, col), Len(members))))

RECURSIVE Sums_FreshOnly(_, _, _, _, _)
\* A variant of Sums that leaves out a sum column that is a weight column.
Sums_FreshOnly(data, members, policy, i, row) ==
  IF i > Len(policy.cols_to_sum) THEN [raised |-> "", data |-> row]
  ELSE IF policy.cols_to_sum[i] \in WeightCols(policy)
    THEN Sums_FreshOnly(data, members, policy, i + 1, row)
  ELSE IF MissingCol(data, members, policy.cols_to_sum[i])
    THEN [raised |-> "KeyError", data |-> row]
  ELSE Sums_FreshOnly(data, members, policy, i + 1,
                      SetCol(row, policy.cols_to_sum[i],
                             Ratio(ColSum(data, members, policy.cols_to_sum[i]), 1)))

RECURSIVE Sums(_, _, _, _, _)
\* Lines 594-609: sum_by_col holds the weight columns.
Sums(data, members, policy, i, row) ==
  IF i > Len(policy.cols_to_sum) THEN [raised |-> "", data |-> row]
  ELSE LET col == policy.cols_to_sum[i]
       IN  IF col \in WeightCols(policy)
             THEN Sums(data, members, policy, i + 1,
                       SetCol(row, col, Ratio(ColSum(data, members, col), 1)))
           ELSE IF MissingCol(data, members, col)
             THEN [raised |-> "KeyError", data |-> row]
           ELSE Sums(data, members, policy, i + 1,
                     SetCol(row, col, Ratio(ColSum(data, members, col), 1)))

EmptyRow == [c \in {} |-> NoneV]

\* Lines 541-609: merged_row.data of a group of two or more members.
\* Lines 594-609, a being the merged row after the averages.
ThenSums(data, members, policy, a) ==
  IF a.raised # "" THEN a ELSE Sums(data, members, policy, 1, a.data)

\* Lines 580-609, w being the merged row after the weighted averages.
ThenAverages(data, members, policy, w) ==
  IF w.raised # "" THEN w
  ELSE ThenSums(data, members, policy, Averages(data, members, policy, 1, w.data))

\* A variant of MergedData that fills the merged row from a copy of the
\* first member's row.
MergedData_FromFirstMember(data, members, policy) ==
  IF \E c \in WeightCols(policy) : MissingCol(data, members, c)
    THEN [raised |-> "KeyError", data |-> EmptyRow]
  ELSE ThenAverages(data, members, policy,
                    WeightedAverages(data, members, policy, 1, data[members[1].original]))

MergedData(data, members, policy) ==
  IF \E c \in WeightCols(policy) : MissingCol(data, members, c)
    THEN [raised |-> "KeyError", data |-> EmptyRow]
  ELSE ThenAverages(data, members, policy,
                    WeightedAverages(data, members, policy, 1, EmptyRow))

Grouped == <<" ", "(", "g", "r", "o", "u", "p", "e", "d", ")">>

\* Lines 530-533
MergedKey(g_name, members, data) ==
  IF Len(members) > 1 /\ g_name \in DOMAIN data THEN g_name \o Grouped ELSE g_name

\* rows_by_grouped_samples[key] = rows, on the list of the dict's items.
DictSet(items, key, rows) ==
  IF \E i \in 1..Len(items) : items[i].key = key
    THEN [i \in 1..Len(items) |->
            IF items[i].key = key THEN [key |-> key, rows |-> rows] ELSE items[i]]
    ELSE Append(items, [key |-> key, rows |-> rows])

InputRow(sample, data, merged) == [sample |-> sample, data |-> data, merged |-> merged]

\* A variant of GroupRows without the early exit of the trivial group.
GroupRows_AlwaysMerged(g, key, data, merged_data) ==
  <<InputRow(key, merged_data, TRUE)>>
    \o [j \in 1..Len(g.members) |->
          InputRow(g.members[j].s_name, data[g.members[j].original], FALSE)]

\* Lines 536-538 and 616-619: the rows of one group.  merged marks the
\* row built at line 541.
GroupRows(g, key, data, merged_data) ==
  IF Len(g.members) = 1
    THEN <<InputRow(g.members[1].s_name, data[g.members[1].original], FALSE)>>
    ELSE <<InputRow(key, merged_data, TRUE)>>
           \o [j \in 1..Len(g.members) |->
                 InputRow(g.members[j].s_name, data[g.members[j].original], FALSE)]

RECURSIVE RowsByGroup(_, _, _, _, _, _)

\* Lines 538 and 616: rows stored under key, and the loop goes on.
Store(data, groups, policy, i, items, emitted, key, rows) ==
  RowsByGroup(data, groups, policy, i + 1, DictSet(items, key, rows),
              Append(emitted, [key |-> key, rows |-> rows]))

\* Lines 541-619 for group i under its key, m being its merged data.
StoreMerged(data, groups, policy, i, items, emitted, key, m) ==
  IF m.raised # ""
    THEN [raised |-> m.raised, rows |-> <<>>, emitted |-> <<>>]
    ELSE Store(data, groups, policy, i, items, emitted, key,
               GroupRows(groups[i], key, data, m.data))

\* Lines 535-619 for group i under its key.
StoreGroup(data, groups, policy, i, items, emitted, key) ==
  IF Len(groups[i].members) = 1
    THEN Store(data, groups, policy, i, items, emitted, key,
               GroupRows(groups[i], key, data, EmptyRow))
    ELSE StoreMerged(data, groups, policy, i, items, emitted, key,
                     MergedData(data, groups[i].members, policy))

\* Lines 521-619, from group i on; items is rows_by_grouped_samples so far
\* and emitted the assignments made to it, one per group, in order.
RowsByGroup(data, groups, policy, i, items, emitted) ==
  IF i > Len(groups) THEN [raised |-> "", rows |-> items, emitted |-> emitted]
  ELSE StoreGroup(data, groups, policy, i, items, emitted,
                  MergedKey(groups[i].group, groups[i].members, data))

\* Line 621, n being what group_samples_names returned and r the outcome
\* of the loop over its groups.
GroupedRows(n, r) ==
  [raised |-> r.raised, groups |-> n.groups, rows |-> r.rows, emitted |-> r.emitted,
   cfg |-> n.cfg]

\* Lines 520-621, n being what group_samples_names returned.
AverageGroups(data, policy, n) ==
  IF n.raised # ""
    THEN [raised |-> n.raised, groups |-> <<>>, rows |-> <<>>, emitted |-> <<>>,
          cfg |-> n.cfg]
    ELSE GroupedRows(n, RowsByGroup(data, n.groups, policy, 1, <<>>, <<>>))

GroupSamplesAndAverageMetrics(cfg, anchor, data, policy) ==
  AverageGroups(data, policy, GroupSamplesNames(cfg, anchor, DOMAIN data))

(***************************************************************************)
(* State machine                                                           *)
(***************************************************************************)
\* The configuration with every rule list empty.
BaseConfig ==
  [fn_clean_sample_names |-> TRUE,
   fn_clean_exts |-> <<>>,
   fn_clean_trim |-> <<>>,
   prepend_dirs |-> FALSE,
   prepend_dirs_sep |-> <<"_">>,
   prepend_dirs_depth |-> 0,
   use_filename_as_sample_name |-> [all |-> FALSE, islist |-> FALSE, keys |-> {}],
   sample_names_replace |-> <<>>,
   sample_names_replace_regex |-> FALSE,
   sample_names_replace_exact |-> FALSE,
   sample_names_replace_complete |-> FALSE,
   generalstats_sample_merge_groups |-> <<>>,
   preserve_module_raw_data |-> FALSE]

\* report.saved_raw_data is a dict, held as the set of its [fn, data] items;
\* data_files are the files report.write_data_file was asked to create, in
\* order.
EmptyReport ==
  [general_stats_data |-> <<>>, general_stats_headers |-> <<>>, saved_raw_data |-> {},
   data_files |-> <<>>]

\* The module instances of a run; module_raw_data[m] is the dict
\* self.__saved_raw_data of instance m (line 153), as the set of its items.
ModuleInstances == {"m1", "m2", "m3"}

NoCall == [op |-> "none"]

InitWith(cfg, inp) ==
  /\ config = cfg
  /\ loaded = cfg
  /\ input = inp
  /\ call = NoCall
  /\ report = EmptyReport
  /\ module_raw_data = [m \in ModuleInstances |-> {}]

\* BaseMultiqcModule._clean_fastq_pair(r1, r2) on the module's two names.
FastqPair ==
  /\ Len(input.names) = 2
  /\ call' = [op |-> "_clean_fastq_pair", raised |-> "",
              ret |-> CleanFastqPair(input.names[1], input.names[2])]
  /\ UNCHANGED <<config, loaded, input, report, module_raw_data>>

\* self.clean_s_name(input.names[i], f=..., root=..., ...)
\* The module's state after a call whose record is c and which leaves the
\* configuration as r.cfg.
Returns(c, r) ==
  /\ call' = c
  /\ config' = r.cfg
  /\ UNCHANGED <<loaded, input, report, module_raw_data>>

CleanReturns(list, arg, r) ==
  Returns([op |-> "clean_s_name", list |-> list, arg |-> arg, raised |-> r.raised,
           ret |-> r.name], r)

CleanOne(i) ==
  CleanReturns(FALSE, input.names[i],
               CleanSName(config, input.anchor, [list |-> FALSE, val |-> input.names[i]],
                          input.ctx))

\* self.clean_s_name(input.names, f=..., root=..., ...)
CleanAll ==
  CleanReturns(TRUE, input.names,
               CleanSName(config, input.anchor, [list |-> TRUE, val |-> input.names],
                          input.ctx))

\* self.groups_for_sample(s_name) for sample i of the module's data.
GroupsForSampleReturns(arg, r) ==
  Returns([op |-> "groups_for_sample", arg |-> arg, raised |-> r.raised,
           ret |-> [group |-> r.group, label |-> r.label]], r)

GroupsForSampleCall(i) ==
  GroupsForSampleReturns(input.names[i],
                         GroupsForSample(config, input.anchor, input.names[i]))

\* self.group_samples_names(data_by_sample.keys())
GroupSamplesNamesReturns(r) ==
  Returns([op |-> "group_samples_names", raised |-> r.raised, ret |-> r.groups], r)

GroupSamplesNamesCall ==
  GroupSamplesNamesReturns(GroupSamplesNames(config, input.anchor, DOMAIN input.data))

\* self.group_samples_and_average_metrics(data_by_sample, grouping_config)
GroupAndAverageReturns(r) ==
  Returns([op |-> "group_samples_and_average_metrics", raised |-> r.raised,
           groups |-> r.groups, ret |-> r.rows, emitted |-> r.emitted], r)

GroupAndAverageCall ==
  GroupAndAverageReturns(GroupSamplesAndAverageMetrics(config, input.anchor, input.data,
                                                       input.policy))

(***************************************************************************)
(* general_stats_addcols (lines 832-899)                                   *)
(*                                                                         *)
(* A module is [name, anchor, skip]: self.name, self.anchor and            *)
(* self.skip_generalstats.  headers is None or the list of the items of    *)
(* the dict, each [col, title, namespace, description], a key that is not  *)
(* in the column's dict being None.                                        *)
(***************************************************************************)
ListV == [t |-> "list", num |-> 0, den |-> 1]

\* Line 866: isinstance(v, (int, float, str, bool)) or v is None
IsPlainValue(val) == val.t \in {"num", "bool", "str", "none"}

\* Line 866
PlainData(row) == [c \in {k \in DOMAIN row : IsPlainValue(row[k])} |-> row[c]]

\* Lines 862-870, names being the keys of data_by_sample in their order.
UngroupedOf(data, names) ==
  [i \in 1..Len(names) |->
     [key |-> names[i], rows |-> <<InputRow(names[i], PlainData(data[names[i]]), FALSE)>>]]

UngroupedRows(data) == UngroupedOf(data, SortedSeq(DOMAIN data))

RowColumns(rows) == UNION {DOMAIN rows[j].data : j \in 1..Len(rows)}

\* Lines 876-879
ColumnIds(rows_by_group) ==
  UNION {RowColumns(rows_by_group[i].rows) : i \in 1..Len(rows_by_group)}

\* sorted(column_ids) for the column keys of the model.
ColOrder == <<"cov", "other", "reads">>

\* Lines 880-881
EmptyHeaders(cols) ==
  [i \in 1..Len(cols) |->
     [col |-> cols[i], title |-> None, namespace |-> None, description |-> None]]

\* Lines 875-884
InitHeaders(headers, rows_by_group) ==
  IF ~headers.some \/ headers.val = <<>>
    THEN EmptyHeaders(SelectSeq(ColOrder, LAMBDA c : c \in ColumnIds(rows_by_group)))
    ELSE headers.val

RECURSIVE AddNamespace(_, _, _, _)

\* Lines 890-894 for column i, namespace being the local variable after
\* line 889.
SetNamespace(hs, i, name, namespace) ==
  AddNamespace(
    [hs EXCEPT ![i].namespace =
                 Some(IF namespace.some /\ namespace.val # <<>>
                        THEN name \o <<":", " ">> \o namespace.val ELSE name),
               ![i].description =
                 IF hs[i].description.some THEN hs[i].description
                 ELSE IF hs[i].title.some THEN hs[i].title
                 ELSE Some(hs[i].col)],
    i + 1, name, namespace)

\* Lines 887-894 from column i on: the local variable namespace is assigned
\* at line 889 and kept for the columns that follow.
AddNamespace(hs, i, name, namespace) ==
  IF i > Len(hs) THEN hs
  ELSE SetNamespace(hs, i, name,
                    IF hs[i].namespace.some THEN hs[i].namespace ELSE namespace)

\* Lines 872-894
Headers(headers, rows_by_group, name, namespace) ==
  AddNamespace(InitHeaders(headers, rows_by_group), 1, name, namespace)

StatsCall(m, raised, rows, hs) ==
  [op |-> "general_stats_addcols", module |-> m.name, skip |-> m.skip, raised |-> raised,
   rows |-> rows, headers |-> hs]

\* Lines 853-854
StatsSkipped(m) ==
  /\ call' = StatsCall(m, "", <<>>, <<>>)
  /\ UNCHANGED <<config, loaded, input, report, module_raw_data>>

\* group_samples_and_average_metrics raised at line 858.
StatsRaised(m, raised, cfg) ==
  /\ call' = StatsCall(m, raised, <<>>, <<>>)
  /\ config' = cfg
  /\ UNCHANGED <<loaded, input, report, module_raw_data>>

\* Variant of StatsAppended that registers the rows without their headers.
StatsAppended_DataOnly(m, rows, hs, cfg) ==
  /\ call' = StatsCall(m, "", rows, hs)
  /\ report' = [report EXCEPT !.general_stats_data = Append(@, rows)]
  /\ config' = cfg
  /\ UNCHANGED <<loaded, input, module_raw_data>>

\* Lines 897-899
StatsAppended(m, rows, hs, cfg) ==
  /\ call' = StatsCall(m, "", rows, hs)
  /\ report' = [report EXCEPT !.general_stats_data = Append(@, rows),
                              !.general_stats_headers = Append(@, hs)]
  /\ config' = cfg
  /\ UNCHANGED <<loaded, input, module_raw_data>>

\* Lines 872-899
StatsAdded(m, headers, namespace, rows, cfg) ==
  StatsAppended(m, rows, Headers(headers, rows, m.name, namespace), cfg)

\* Lines 857-861, r being the outcome of group_samples_and_average_metrics.
StatsGrouped(m, headers, namespace, r) ==
  IF r.raised # "" THEN StatsRaised(m, r.raised, r.cfg)
  ELSE StatsAdded(m, headers, namespace, r.rows, r.cfg)

MaxCalls == 2

\* module m calls self.general_stats_addcols(data_by_sample, headers,
\* namespace, group_samples_config); report.general_stats_data is followed
\* up to MaxCalls entries.
GeneralStatsAddcols(m, headers, namespace) ==
  /\ m.skip \/ Len(report.general_stats_data) < MaxCalls
  /\ IF m.skip THEN StatsSkipped(m)
     ELSE IF config.generalstats_sample_merge_groups # <<>>
       THEN StatsGrouped(m, headers, namespace,
                         GroupSamplesAndAverageMetrics(config, m.anchor, input.data,
                                                       input.policy))
     ELSE StatsAdded(m, headers, namespace, UngroupedRows(input.data), config)

(***************************************************************************)
(* write_data_file (lines 955-976)                                         *)
(*                                                                         *)
(* A module is [id, cust_anchor]: the instance and                         *)
(* self.mod_cust_config.get("anchor").                                     *)
(***************************************************************************)
DigitChar == <<"0", "1", "2", "3", "4", "5", "6", "7", "8", "9">>

RECURSIVE IntStr(_)

\* str(i) for i >= 0, as the f-string of line 967 formats it.
IntStr(i) ==
  IF i < 10 THEN <<DigitChar[i + 1]>>
  ELSE IntStr(i \div 10) \o <<DigitChar[(i % 10) + 1]>>

\* Lines 960-961
AnchoredFn(m, fn) ==
  IF m.cust_anchor.some /\ m.cust_anchor.val # <<>>
    THEN fn \o <<"_">> \o m.cust_anchor.val
    ELSE fn

\* The keys of a dict held as the set of its items.
DictKeys(items) == {e.fn : e \in items}

RECURSIVE UniqueFn(_, _, _, _)

\* Lines 964-968: the loop, fn and i being its variables.
UniqueFn(saved, base_fn, fn, i) ==
  IF fn \in DictKeys(saved)
    THEN UniqueFn(saved, base_fn, base_fn \o <<"_">> \o IntStr(i), i + 1)
    ELSE fn

\* d[fn] = data on a dict held as the set of its items.
DictPut(items, fn, data) ==
  {e \in items : e.fn # fn} \cup {[fn |-> fn, data |-> data]}

\* Lines 970-976 with the name the loop left.
WriteAs(m, data, requested, fn) ==
  /\ call' = [op |-> "write_data_file", raised |-> "", module |-> m.id,
              requested |-> requested, fn |-> fn]
  /\ report' = [report EXCEPT
                  !.saved_raw_data =
                     IF config.preserve_module_raw_data THEN DictPut(@, fn, data) ELSE @,
                  !.data_files = Append(@, [fn |-> fn, data |-> data])]
  /\ module_raw_data' =
       IF config.preserve_module_raw_data
         THEN [module_raw_data EXCEPT ![m.id] = DictPut(@, fn, data)]
         ELSE module_raw_data
  /\ UNCHANGED <<config, loaded, input>>

\* Lines 960-968 on the name as the module's anchor extended it.
WriteUnique(m, data, requested, base_fn) ==
  WriteAs(m, data, requested, UniqueFn(report.saved_raw_data, base_fn, base_fn, 1))

MaxFiles == 3

\* module m calls self.write_data_file(data, fn); the files written are
\* followed up to MaxFiles.
WriteDataFile(m, data, fn) ==
  /\ Len(report.data_files) < MaxFiles
  /\ WriteUnique(m, data, fn, AnchoredFn(m, fn))

(***************************************************************************)
(* SpecPair: a module holding two file names, under a few rule lists.      *)
(***************************************************************************)
MaxRawLen == 2

PairBases == {<<"s">>, <<"s", "_", "1">>}

PairSuffixes(d) ==
  {<<>>, <<"_", "R", d, "_", "0", "0", "1">>, <<"_", "R", d, "_", "0", "1">>,
   <<"_", "R", d, "_", "s">>, <<"_", "R", d>>, <<"R", d>>, <<d>>, <<"_", d>>,
   <<".", "r", d>>, <<"-", "R", d>>}

PairNames ==
  {b \o x : b \in PairBases, x \in PairSuffixes("1") \cup PairSuffixes("2")}
    \cup StringsUpTo({"s", "_", "R", "1", "2"}, MaxRawLen)

PairConfigs ==
  {BaseConfig,
   [BaseConfig EXCEPT !.fn_clean_exts = <<DictRule("remove", <<"0">>)>>],
   [BaseConfig EXCEPT !.fn_clean_exts = <<StrRule(<<"_", "0">>)>>,
                      !.fn_clean_trim = <<(<<"_">>)>>]}

InitPair ==
  \E cfg \in PairConfigs, a \in PairNames, b \in PairNames :
    InitWith(cfg, [anchor |-> "rseqc", names |-> <<a, b>>, ctx |-> NoCtx])

NextPair == FastqPair \/ CleanAll \/ \E i \in 1..2 : CleanOne(i)

SpecPair == InitPair /\ [][NextPair]_vars

(***************************************************************************)
(* SpecGroup: a module holding the metric rows of up to MaxSamples         *)
(* samples, under the merge-group configurations below.                    *)
(***************************************************************************)
MaxSamples == 3

R1Label == <<"R", "1">>

R2Label == <<"R", "2">>

MergeGroupValues ==
  {<<>>,
   <<[label |-> R1Label, exts |-> <<StrRule(<<"_", "R", "1">>)>>],
     [label |-> R2Label, exts |-> <<StrRule(<<"_", "R", "2">>)>>]>>,
   <<[label |-> R1Label,
      exts |-> <<ScopedRule("truncate", <<"_", "R", "1">>, "str", <<"rseqc">>)>>],
     [label |-> R2Label, exts |-> <<DictRule("remove", <<"_", "R", "2">>)>>]>>,
   <<[label |-> <<"a">>, exts |-> <<>>],
     [label |-> <<"R">>, exts |-> <<DictRule("regex", <<"_", "R", ".">>)>>]>>,
   <<[label |-> R1Label, exts |-> <<DictRule("regex", <<"(">>)>>]>>}

GroupConfigs ==
  {[BaseConfig EXCEPT !.generalstats_sample_merge_groups = g] : g \in MergeGroupValues}

SampleNames ==
  {<<"x">>, <<"x", "_", "R", "1">>, <<"x", "_", "R", "2">>, <<"y", "_", "R", "1">>}

Rows ==
  {[cov |-> NumV(10), reads |-> NumV(100), other |-> StrV],
   [cov |-> NumV(20), reads |-> NumV(300), other |-> NumV(7)],
   [cov |-> StrV, reads |-> NumV(0), other |-> NumV(1)],
   [cov |-> NumV(3), reads |-> BoolV(TRUE), other |-> NoneV],
   [cov |-> NumV(20), other |-> NumV(2)]}

FewRows ==
  {[cov |-> NumV(10), reads |-> NumV(100), other |-> StrV],
   [cov |-> NumV(20), reads |-> NumV(300), other |-> NumV(7)]}

Policies ==
  {[cols_to_weighted_average |-> <<<<"cov", "reads">>>>, cols_to_average |-> <<>>,
    cols_to_sum |-> <<"reads">>],
   [cols_to_weighted_average |-> <<<<"cov", "reads">>>>, cols_to_average |-> <<"other">>,
    cols_to_sum |-> <<>>],
   [cols_to_weighted_average |-> <<>>, cols_to_average |-> <<"cov">>,
    cols_to_sum |-> <<"reads">>],
   [cols_to_weighted_average |-> <<>>, cols_to_average |-> <<>>, cols_to_sum |-> <<>>]}

\* The rows of a set of samples: any rows for up to two samples, rows with
\* every column for more.
DataSets ==
  UNION {IF Cardinality(S) <= 2 THEN [S -> Rows] ELSE [S -> FewRows] :
           S \in {T \in SUBSET SampleNames : Cardinality(T) \in 1..MaxSamples}}

InitGroup ==
  \E cfg \in GroupConfigs, data \in DataSets, policy \in Policies :
    InitWith(cfg, [anchor |-> "rseqc", names |-> SortedSeq(DOMAIN data), ctx |-> NoCtx,
                   data |-> data, policy |-> policy])

NextGroup ==
  \/ GroupAndAverageCall
  \/ GroupSamplesNamesCall
  \/ \E i \in 1..Len(input.names) : GroupsForSampleCall(i)
  \/ \E i \in 1..Len(input.names) : CleanOne(i)

SpecGroup == InitGroup /\ [][NextGroup]_vars

(***************************************************************************)
(* SpecClash: as SpecGroup, one of the samples being named like the merged *)
(* row of a group, and one whose label comes first in the sorted names.    *)
(***************************************************************************)
ClashNames ==
  {<<"x">>, <<"x", "_", "R", "1">>, <<"x", "_", "R", "2">>, <<"x">> \o Grouped,
   <<"a", "_", "R", "2">>}

ClashDataSets ==
  UNION {[S -> FewRows] :
           S \in {T \in SUBSET ClashNames : Cardinality(T) \in 1..MaxSamples}}

ClashConfigs ==
  {[BaseConfig EXCEPT !.generalstats_sample_merge_groups = g] :
     g \in {<<[label |-> R1Label, exts |-> <<StrRule(<<"_", "R", "1">>)>>],
              [label |-> R2Label, exts |-> <<StrRule(<<"_", "R", "2">>)>>]>>,
            <<[label |-> <<"R">>, exts |-> <<DictRule("regex", <<"_", "R", ".">>)>>]>>}}

InitClash ==
  \E cfg \in ClashConfigs, data \in ClashDataSets, policy \in Policies :
    InitWith(cfg, [anchor |-> "rseqc", names |-> SortedSeq(DOMAIN data), ctx |-> NoCtx,
                   data |-> data, policy |-> policy])

NextClash == GroupAndAverageCall \/ GroupSamplesNamesCall

SpecClash == InitClash /\ [][NextClash]_vars

(***************************************************************************)
(* SpecStats: modules adding the metrics of two samples to the General     *)
(* Statistics table.                                                       *)
(***************************************************************************)
Modules ==
  {[name |-> <<"a">>, anchor |-> "rseqc", skip |-> FALSE],
   [name |-> <<"b">>, anchor |-> "bowtie2", skip |-> FALSE],
   [name |-> <<"b">>, anchor |-> "bowtie2", skip |-> TRUE]}

HeaderValues ==
  {None,
   Some(<<>>),
   Some(<<[col |-> "reads", title |-> Some("Reads"), namespace |-> Some(<<"n">>),
           description |-> None],
          [col |-> "cov", title |-> None, namespace |-> None,
           description |-> Some("Coverage")]>>)}

NamespaceValues == {None, Some(<<"s">>)}

StatsConfigs ==
  {BaseConfig,
   [BaseConfig EXCEPT !.generalstats_sample_merge_groups =
      <<[label |-> R1Label,
         exts |-> <<ScopedRule("truncate", <<"_", "R", "1">>, "str", <<"rseqc">>)>>],
        [label |-> R2Label, exts |-> <<StrRule(<<"_", "R", "2">>)>>]>>]}

StatsDataSets ==
  [{<<"x", "_", "R", "1">>} -> {[cov |-> NumV(10), reads |-> NumV(100)]}]
    \cup [{<<"x", "_", "R", "1">>, <<"x", "_", "R", "2">>}
            -> {[cov |-> NumV(10), reads |-> NumV(100)],
                [cov |-> NumV(20), other |-> ListV]}]

InitStats ==
  \E cfg \in StatsConfigs, data \in StatsDataSets,
     policy \in {p \in Policies : p.cols_to_average = <<>>} :
    InitWith(cfg, [anchor |-> "rseqc", names |-> SortedSeq(DOMAIN data), ctx |-> NoCtx,
                   data |-> data, policy |-> policy])

NextStats ==
  \E m \in Modules, headers \in HeaderValues, namespace \in NamespaceValues :
    GeneralStatsAddcols(m, headers, namespace)

SpecStats == InitStats /\ [][NextStats]_vars

(***************************************************************************)
(* SpecFiles: module instances, one of them with a custom anchor, writing  *)
(* their data files, with and without config.preserve_module_raw_data.     *)
(***************************************************************************)
FileModules ==
  {[id |-> "m1", cust_anchor |-> None],
   [id |-> "m2", cust_anchor |-> None],
   [id |-> "m3", cust_anchor |-> Some(<<"1">>)]}

FileNames == {<<"f">>, <<"f", "_", "1">>}

FileData == {"rows", "other rows"}

InitFiles ==
  \E preserve \in BOOLEAN :
    InitWith([BaseConfig EXCEPT !.preserve_module_raw_data = preserve],
             [anchor |-> "rseqc", names |-> <<>>, ctx |-> NoCtx])

NextFiles ==
  \E m \in FileModules, data \in FileData, fn \in FileNames : WriteDataFile(m, data, fn)

SpecFiles == InitFiles /\ [][NextFiles]_vars

(***************************************************************************)
(* Claims on _clean_fastq_pair                                             *)
(***************************************************************************)
IsPairCall == call.op = "_clean_fastq_pair"

IsListCall == call.op = "clean_s_name" /\ call.list

IsScalarCall == call.op = "clean_s_name" /\ ~call.list

Punctuation == {"_", ".", "-"}

\* Heuristic 1 as the claim words it: a trailing _R<d>_NNN, N a digit.
C9_StripIllumina(s, d) ==
  IF /\ Len(s) >= 7
     /\ SubSeq(s, Len(s) - 6, Len(s) - 3) = <<"_", "R", d, "_">>
     /\ \A k \in (Len(s) - 2)..Len(s) : s[k] \in Digits
    THEN SubSeq(s, 1, Len(s) - 7) ELSE s

\* Heuristic 2 as the claim words it: _R<d>_ replaced by a single "_".
C9_ReplaceMiddle(s, d) == StrReplace(s, <<"_", "R", d, "_">>, <<"_">>)

\* Heuristic 3: a trailing punctuation character, an optional r or R, and
\* the mate digit.
C9_StripMate(s, d) ==
  IF \E p \in Punctuation : EndsWith(s, <<p, d>>) THEN SubSeq(s, 1, Len(s) - 2)
  ELSE IF \E p \in Punctuation, r \in {"r", "R"} : EndsWith(s, <<p, r, d>>)
    THEN SubSeq(s, 1, Len(s) - 3)
  ELSE s

C9_Expected(a, b) ==
  IF C9_StripIllumina(a, "1") = C9_StripIllumina(b, "2")
    THEN Some(C9_StripIllumina(a, "1"))
  ELSE IF C9_ReplaceMiddle(a, "1") = C9_ReplaceMiddle(b, "2")
    THEN Some(C9_ReplaceMiddle(a, "1"))
  ELSE IF C9_StripMate(a, "1") = C9_StripMate(b, "2") THEN Some(C9_StripMate(a, "1"))
  ELSE None

\* The names of the module are b_R1_001 and b_R2_001 for one base b.
C9_IlluminaPair ==
  /\ Len(input.names) = 2
  /\ EndsWith(input.names[1], <<"_", "R", "1", "_", "0", "0", "1">>)
  /\ EndsWith(input.names[2], <<"_", "R", "2", "_", "0", "0", "1">>)
  /\ SubSeq(input.names[1], 1, Len(input.names[1]) - 7)
       = SubSeq(input.names[2], 1, Len(input.names[2]) - 7)

\* Cleaning alone, under the loaded configuration, leaves the name as it is.
C9_CleanFixes(name) ==
  LET r == CleanSName(loaded, input.anchor, [list |-> FALSE, val |-> name], input.ctx)
  IN  r.raised = "" /\ r.name = name

C10_FallsToThird ==
  /\ C9_StripIllumina(input.names[1], "1") # C9_StripIllumina(input.names[2], "2")
  /\ C9_ReplaceMiddle(input.names[1], "1") # C9_ReplaceMiddle(input.names[2], "2")

\* The suffix as the claim words it: optional punctuation, optional r or R,
\* the mate digit; the longest such suffix is stripped.
C10_ClaimedStrip(s, d) ==
  IF \E p \in Punctuation, r \in {"r", "R"} : EndsWith(s, <<p, r, d>>)
    THEN SubSeq(s, 1, Len(s) - 3)
  ELSE IF \E c \in Punctuation \cup {"r", "R"} : EndsWith(s, <<c, d>>)
    THEN SubSeq(s, 1, Len(s) - 2)
  ELSE IF EndsWith(s, <<d>>) THEN SubSeq(s, 1, Len(s) - 1)
  ELSE s

\* C10 as claimed: the third heuristic strips a trailing suffix made of an
\* optional punctuation character, an optional r or R and the mate digit, so
\* that sampleR1/sampleR2 and sample1/sample2 are merged like
\* sample_1/sample_2.
C10_OptionalPunctuation ==
  (IsPairCall /\ C10_FallsToThird)
    => call.ret = IF C10_ClaimedStrip(input.names[1], "1")
                       = C10_ClaimedStrip(input.names[2], "2")
                    THEN Some(C10_ClaimedStrip(input.names[1], "1")) ELSE None

\* C10 amended: the third heuristic strips a trailing suffix made of one
\* punctuation character ("_", "." or "-"), an optional r or R and the mate
\* digit, and leaves a name without such a suffix as it is; the pair is
\* merged exactly when the two stripped names are equal, so sampleR1/sampleR2
\* and sample1/sample2 are not merged while sample_1/sample_2 is.
C10_PunctuationRequired ==
  (IsPairCall /\ C10_FallsToThird)
    => /\ call.ret = IF C9_StripMate(input.names[1], "1") = C9_StripMate(input.names[2], "2")
                       THEN Some(C9_StripMate(input.names[1], "1")) ELSE None
       /\ (input.names = <<(<<"s", "R", "1">>), (<<"s", "R", "2">>)>>) => call.ret = None
       /\ (input.names = <<(<<"s", "1">>), (<<"s", "2">>)>>) => call.ret = None
       /\ (input.names = <<(<<"s", "_", "1">>), (<<"s", "_", "2">>)>>)
            => call.ret = Some(<<"s">>)

\* sR1/sR2 is not merged and s_1/s_2 is.
C10_Witness ==
  /\ IsPairCall
  /\ input.names = <<(<<"s", "R", "1">>), (<<"s", "R", "2">>)>>
  /\ call.ret = None

\* The name carries the mate token of read d that one of the three
\* heuristics looks for.
C26_HasMateToken(s, d) ==
  \/ C9_StripIllumina(s, d) # s
  \/ C9_ReplaceMiddle(s, d) # s
  \/ C9_StripMate(s, d) # s

\* C26 as claimed: _clean_fastq_pair returns a merged name only when the
\* first name carries a read-1 mate token and the second the read-2 token;
\* two different names of which one carries no token are not merged, and
\* clean_s_name on such a list joins them with "_".  Two equal names, which
\* the first heuristic returns as they are, are left aside.
C26_MergesOnlyMates ==
  /\ (IsPairCall /\ call.ret.some /\ input.names[1] # input.names[2])
       => /\ C26_HasMateToken(input.names[1], "1")
          /\ C26_HasMateToken(input.names[2], "2")
  /\ (/\ IsListCall
      /\ call.raised = ""
      /\ loaded.fn_clean_exts = <<>>
      /\ loaded.fn_clean_trim = <<>>
      /\ Len(call.arg) = 2
      /\ call.arg[1] # call.arg[2]
      /\ ~(C26_HasMateToken(call.arg[1], "1") /\ C26_HasMateToken(call.arg[2], "2")))
       => call.ret = call.arg[1] \o <<"_">> \o call.arg[2]

(***************************************************************************)
(* SpecClean: a module cleaning two names, one at a time or as a list,     *)
(* under families of configurations: clean rules, trim rules, --replace-   *)
(* names rules with the three mode flags, directory prefixes and the       *)
(* filename override.                                                      *)
(***************************************************************************)
MaxRules == 2

MaxReplace == 2

MaxDepth == 2

SeqsUpTo(S, n) == UNION {[1..k -> S] : k \in 0..n}

CleanRules ==
  {StrRule(<<"_", "R">>),
   DictRule("remove", <<"_">>),
   DictRule("regex", <<".", "1">>),
   DictRule("regex_keep", <<"s", ".">>),
   ScopedRule("truncate", <<"_">>, "str", <<"rseqc">>),
   ScopedRule("remove", <<"s">>, "list", <<"bowtie2">>),
   DictRule("none", <<"_">>),
   DictRule("other", <<"_">>),
   DictRule("truncate", <<>>),
   DictRule("regex", <<"(">>)}

TrimRules == {<<"_">>, <<"s">>, <<>>}

ReplaceRules ==
  {[search |-> <<"s">>, replace |-> <<"x">>],
   [search |-> <<"s">>, replace |-> <<>>],
   [search |-> <<".">>, replace |-> <<"a">>],
   [search |-> <<"(">>, replace |-> <<"x">>],
   [search |-> <<"_", "1">>, replace |-> <<>>]}

\* config.sample_names_replace is a dict: no search term twice.
ReplaceDicts ==
  {q \in SeqsUpTo(ReplaceRules, MaxReplace) :
     \A i, j \in 1..Len(q) : i # j => q[i].search # q[j].search}

RawNames ==
  {<<"s">>, <<"s", "_", "1">>, <<"s", "_", "R", "1">>, <<" ", "s", " ">>,
   <<"a", "/", "s">>, <<"a", "/">>, <<" ">>, <<"_">>, <<"s", "_", "1", "_", "1">>}

SecondNames == {<<"s">>, <<"s", "_", "2">>}

CleanArgs ==
  {NoCtx,
   [f |-> [kind |-> "str", root |-> <<"a", "/", "b", "/", "x">>],
    root |-> None, fn |-> None, sp_key |-> None],
   [f |-> [kind |-> "dict", root |-> <<"/", "a", "/", " ", "b">>,
           fn |-> <<"y", "_", "1">>, sp_key |-> "rseqc/bam_stat"],
    root |-> None, fn |-> None, sp_key |-> None],
   [f |-> NoF, root |-> Some(<<"a">>), fn |-> Some(<<"b", "/", "y">>), sp_key |-> None]}

UseFilenameValues ==
  {[all |-> FALSE, islist |-> FALSE, keys |-> {}],
   [all |-> TRUE, islist |-> FALSE, keys |-> {}],
   [all |-> FALSE, islist |-> TRUE, keys |-> {"rseqc/bam_stat"}],
   [all |-> FALSE, islist |-> TRUE, keys |-> {"bowtie2"}]}

RuleConfigs ==
  {[BaseConfig EXCEPT !.fn_clean_exts = q] : q \in SeqsUpTo(CleanRules, MaxRules)}

TrimConfigs ==
  {[BaseConfig EXCEPT !.fn_clean_trim = t, !.fn_clean_exts = q] :
     t \in SeqsUpTo(TrimRules, 2), q \in {<<>>, <<DictRule("remove", <<"_">>)>>}}

ReplaceConfigs ==
  {[BaseConfig EXCEPT !.sample_names_replace = q,
                      !.sample_names_replace_regex = re,
                      !.sample_names_replace_exact = ex,
                      !.sample_names_replace_complete = co] :
     q \in ReplaceDicts, re \in BOOLEAN, ex \in BOOLEAN, co \in BOOLEAN}

DirConfigs ==
  {[BaseConfig EXCEPT !.prepend_dirs = TRUE,
                      !.prepend_dirs_depth = d,
                      !.use_filename_as_sample_name = u,
                      !.fn_clean_sample_names = c,
                      !.fn_clean_trim = <<(<<"a">>)>>] :
     d \in (-MaxDepth)..MaxDepth, u \in UseFilenameValues, c \in BOOLEAN}

CleanInput(anchor, a, b, args) == [anchor |-> anchor, names |-> <<a, b>>, ctx |-> args]

InitClean ==
  \E a \in RawNames, b \in SecondNames :
    \/ \E cfg \in RuleConfigs, anchor \in {"rseqc", "bowtie2"} :
         InitWith(cfg, CleanInput(anchor, a, b, NoCtx))
    \/ \E cfg \in TrimConfigs \cup ReplaceConfigs :
         InitWith(cfg, CleanInput("rseqc", a, b, NoCtx))
    \/ \E cfg \in DirConfigs, args \in CleanArgs :
         InitWith(cfg, CleanInput("bowtie2", a, b, args))

NextClean == CleanAll \/ \E i \in 1..2 : CleanOne(i)

SpecClean == InitClean /\ [][NextClean]_vars

(***************************************************************************)
(* SpecList: a module cleaning a list of up to MaxNames file names, or one *)
(* of them.                                                                *)
(***************************************************************************)
MaxNames == 3

ListNames == {<<"a">>, <<"b">>, <<"a", "_", "1">>, <<"a", "_", "2">>}

ListConfigs ==
  {BaseConfig,
   [BaseConfig EXCEPT !.fn_clean_exts = <<StrRule(<<"_">>)>>],
   [BaseConfig EXCEPT !.fn_clean_exts = <<ScopedRule("remove", <<"_">>, "str", <<"rseqc">>)>>]}

InitList ==
  \E names \in SeqsUpTo(ListNames, MaxNames), cfg \in ListConfigs :
    InitWith(cfg, [anchor |-> "rseqc", names |-> names, ctx |-> NoCtx])

NextList == CleanAll \/ \E i \in 1..Len(input.names) : CleanOne(i)

SpecList == InitList /\ [][NextList]_vars

(***************************************************************************)
(* SpecLabel: a module resolving the group and the label of one sample     *)
(* name, under merge groups, default clean rules and --replace-names rules.*)
(***************************************************************************)
LabelGroups ==
  {<<>>,
   <<[label |-> R1Label, exts |-> <<StrRule(<<"_", "R", "1">>)>>],
     [label |-> <<"R">>, exts |-> <<DictRule("regex", <<"_", "R", ".">>)>>],
     [label |-> <<"X">>, exts |-> <<DictRule("regex", <<"(">>)>>]>>,
   <<[label |-> <<"a">>, exts |-> <<>>],
     [label |-> R1Label,
      exts |-> <<ScopedRule("truncate", <<"_", "R", "1">>, "str", <<"rseqc">>),
                 ScopedRule("remove", <<"x">>, "list", <<"bowtie2">>)>>],
     [label |-> R2Label, exts |-> <<DictRule("remove", <<"_", "R", "2">>)>>]>>}

LabelNames ==
  {<<"x">>, <<"x", "_", "R", "1">>, <<"x", "_", "R", "2">>, <<"y", "_", "1", "_", "R", "1">>,
   <<" ", "x">>, <<"a", "/", "x">>, <<"a", "/", "x", "_", "R", "2">>}

LabelConfigs ==
  {[BaseConfig EXCEPT !.generalstats_sample_merge_groups = g,
                      !.fn_clean_exts = q,
                      !.sample_names_replace = r] :
     g \in LabelGroups,
     q \in {<<>>, <<StrRule(<<"_">>)>>},
     r \in {<<>>, <<[search |-> <<"x">>, replace |-> <<"z">>]>>}}

InitLabel ==
  \E cfg \in LabelConfigs, n \in LabelNames :
    InitWith(cfg, [anchor |-> "rseqc", names |-> <<n>>, ctx |-> NoCtx])

NextLabel == GroupsForSampleCall(1) \/ CleanOne(1)

SpecLabel == InitLabel /\ [][NextLabel]_vars

(***************************************************************************)
(* Claims on clean_s_name                                                  *)
(***************************************************************************)
\* C1: clean_s_name returns a non-empty string for every non-empty scalar
\* raw name, under every configuration.
C1_NeverEmpty ==
  (IsScalarCall /\ call.arg # <<>> /\ call.raised = "") => call.ret # <<>>

\* What a first call with the arguments of the last call returns: the call
\* made under the configuration as loaded.
C7_FirstCall ==
  CleanSName(loaded, input.anchor, [list |-> call.list, val |-> call.arg], input.ctx)

\* C7: after any sequence of earlier clean_s_name calls (scalar or list), a
\* call returns what a first call with the same arguments returns: the same
\* name, or the same exception.
C7_Deterministic ==
  call.op = "clean_s_name"
    => /\ call.raised = C7_FirstCall.raised
       /\ call.ret = C7_FirstCall.name

\* A call made on rules that an earlier call has rewritten, and that the
\* module-scoped rule applies to.
C7_Witness ==
  /\ IsScalarCall
  /\ config # loaded
  /\ call.raised = ""
  /\ call.arg = <<"s", "_", "1">>
  /\ call.ret = <<"s">>
  /\ input.anchor = "rseqc"
  /\ loaded.fn_clean_exts = <<ScopedRule("truncate", <<"_">>, "str", <<"rseqc">>)>>

\* What clean_s_name makes of each name of the list on its own, with the
\* same arguments.
C11_Cleaned ==
  [i \in 1..Len(call.arg) |->
     CleanSName(loaded, input.anchor, [list |-> FALSE, val |-> call.arg[i]], input.ctx).name]

C11_AllIdentical == \A i \in 1..Len(call.arg) : C11_Cleaned[i] = C11_Cleaned[1]

\* The list is not a pair that _clean_fastq_pair matches.
C11_NoPairMatch ==
  Len(call.arg) # 2 \/ ~CleanFastqPair(C11_Cleaned[1], C11_Cleaned[2]).some

\* C11 as claimed: a list whose cleaned names are all identical gives that
\* name, and one that is not a matched pair gives the distinct cleaned names
\* joined with "_", a name occurring several times appearing once.
C11_JoinsDistinct ==
  (IsListCall /\ call.raised = "") =>
    /\ C11_AllIdentical => call.ret = C11_Cleaned[1]
    /\ (~C11_AllIdentical /\ C11_NoPairMatch)
         => call.ret = JoinWith(<<"_">>, DistinctNames(C11_Cleaned, {}))

\* C11 amended: a list whose cleaned names are all identical gives that
\* name, and one that is not a matched pair gives all the cleaned names, in
\* the order of the list and repetitions included, joined with "_".
C11_JoinsAll ==
  (IsListCall /\ call.raised = "") =>
    /\ C11_AllIdentical => call.ret = C11_Cleaned[1]
    /\ (~C11_AllIdentical /\ C11_NoPairMatch)
         => call.ret = JoinWith(<<"_">>, C11_Cleaned)

\* The list a, b, a is cleaned to a_b_a.
C11_Witness ==
  /\ IsListCall
  /\ call.raised = ""
  /\ call.arg = <<(<<"a">>), (<<"b">>), (<<"a">>)>>
  /\ call.ret = <<"a", "_", "b", "_", "a">>

\* C12 as claimed: clean_s_name raises for the empty list and for no other
\* name: every call on a str or on a non-empty list returns a name.
C12_OnlyEmptyListRaises ==
  /\ (IsListCall /\ call.arg = <<>>) => call.raised = "ValueError"
  /\ (IsScalarCall \/ (IsListCall /\ call.arg # <<>>)) => call.raised = ""

\* f, root, filename and search_pattern_key of the call, f resolved.
C17_Ctx == ResolveF(input.ctx.f, input.ctx.root, input.ctx.fn, input.ctx.sp_key)

\* The working name the directories are prepended to.
C17_Name ==
  Basename(IF UseFilename(loaded, C17_Ctx) THEN C17_Ctx.fn.val ELSE call.arg)

\* The components of the root path that are not blank, stripped.
C17_Components == RootDirs(C17_Ctx.root)

\* The last N components for a depth N > 0, all of them for the depth 0.
C17_Kept ==
  IF loaded.prepend_dirs_depth = 0 \/ Len(C17_Components) <= loaded.prepend_dirs_depth
    THEN C17_Components
    ELSE [i \in 1..loaded.prepend_dirs_depth |->
            C17_Components[Len(C17_Components) - loaded.prepend_dirs_depth + i]]

C17_Prefixed ==
  IF C17_Kept = <<>> THEN C17_Name
  ELSE JoinWith(loaded.prepend_dirs_sep, C17_Kept) \o loaded.prepend_dirs_sep \o C17_Name

\* C17: with directory prefixes on and a depth N > 0 the last N components
\* of the root path, joined by the separator and followed by the separator,
\* are prepended to the working name; the depth 0 prepends all components;
\* with no component the name gets no prefix.  Read on calls where no clean
\* rule, trim rule or replacement rule acts after the prefix.
C17_LastComponents ==
  (/\ IsScalarCall
   /\ call.raised = ""
   /\ loaded.prepend_dirs
   /\ loaded.prepend_dirs_depth >= 0
   /\ ~loaded.fn_clean_sample_names
   /\ loaded.sample_names_replace = <<>>)
    => call.ret = RevertIfEmpty(Strip(C17_Prefixed), call.arg)

\* Root a/b/x, depth 1, separator _ and name s give x_s.
C17_Witness ==
  /\ IsScalarCall
  /\ call.raised = ""
  /\ loaded.prepend_dirs
  /\ loaded.prepend_dirs_depth = 1
  /\ ~loaded.fn_clean_sample_names
  /\ C17_Ctx.root = Some(<<"a", "/", "b", "/", "x">>)
  /\ ~UseFilename(loaded, C17_Ctx)
  /\ call.arg = <<"s">>
  /\ call.ret = <<"x", "_", "s">>

\* The name returned when the components dirs are prepended.
C21_Returned(dirs) ==
  RevertIfEmpty(
    Strip(IF dirs = <<>> THEN C17_Name
          ELSE JoinWith(loaded.prepend_dirs_sep, dirs) \o loaded.prepend_dirs_sep \o C17_Name),
    call.arg)

\* A call with directory prefixes on and a negative depth, where no clean
\* rule, trim rule or replacement rule acts after the prefix.
C21_NegativeDepth ==
  /\ IsScalarCall
  /\ call.raised = ""
  /\ loaded.prepend_dirs
  /\ loaded.prepend_dirs_depth < 0
  /\ ~loaded.fn_clean_sample_names
  /\ loaded.sample_names_replace = <<>>

\* C21 as claimed: with a depth -N the last N components of the root path
\* are dropped and the leading components that remain are prepended.
C21_DropsLast ==
  C21_NegativeDepth =>
    call.ret = C21_Returned(
      SubSeq(C17_Components, 1,
             IF Len(C17_Components) > -loaded.prepend_dirs_depth
               THEN Len(C17_Components) + loaded.prepend_dirs_depth ELSE 0))

\* C21, amended: with directory prefixes on and a depth -N the first N
\* components of the root path (all of them when there are at most N) are
\* kept and prepended to the working name, joined by and followed by the
\* separator; the components after the first N are dropped.
C21_KeepsFirst ==
  C21_NegativeDepth =>
    call.ret = C21_Returned(
      SubSeq(C17_Components, 1,
             IF Len(C17_Components) > -loaded.prepend_dirs_depth
               THEN -loaded.prepend_dirs_depth ELSE Len(C17_Components)))

\* Root a/b/x, depth -1, separator _ and name s give a_s.
C21_Witness ==
  /\ C21_NegativeDepth
  /\ loaded.prepend_dirs_depth = -1
  /\ C17_Ctx.root = Some(<<"a", "/", "b", "/", "x">>)
  /\ ~UseFilename(loaded, C17_Ctx)
  /\ call.arg = <<"s">>
  /\ call.ret = <<"a", "_", "s">>

\* A call whose only clean rule is a regex-remove rule that applies to the
\* module, with no trim rule, replacement rule or directory prefix.
C22_RegexRule ==
  /\ IsScalarCall
  /\ call.raised = ""
  /\ loaded.fn_clean_sample_names
  /\ Len(loaded.fn_clean_exts) = 1
  /\ ~loaded.fn_clean_exts[1].isstr
  /\ loaded.fn_clean_exts[1].type = "regex"
  /\ loaded.fn_clean_exts[1].module.kind = "absent"
  /\ loaded.fn_clean_trim = <<>>
  /\ loaded.sample_names_replace = <<>>
  /\ ~loaded.prepend_dirs
  /\ ~UseFilename(loaded, C17_Ctx)

C22_Pattern == ReCompile(loaded.fn_clean_exts[1].pattern)

\* Position of the first match of the pattern in s, 0 when there is none.
C22_FirstMatch(s) ==
  IF \E i \in 1..Len(s) : MatchAt(C22_Pattern, s, i)
    THEN CHOOSE i \in 1..Len(s) :
           MatchAt(C22_Pattern, s, i) /\ \A j \in 1..(i - 1) : ~MatchAt(C22_Pattern, s, j)
    ELSE 0

\* s without the first match of the pattern.
C22_WithoutFirst(s) ==
  IF C22_FirstMatch(s) = 0 THEN s
  ELSE SubSeq(s, 1, C22_FirstMatch(s) - 1)
         \o SubSeq(s, C22_FirstMatch(s) + Len(C22_Pattern), Len(s))

RECURSIVE C22_WithoutMatches(_, _)

\* s from position i on without any of the matches of the pattern found
\* from left to right, none overlapping an earlier one.
C22_WithoutMatches(s, i) ==
  IF i > Len(s) THEN <<>>
  ELSE IF MatchAt(C22_Pattern, s, i) THEN C22_WithoutMatches(s, i + Len(C22_Pattern))
  ELSE <<s[i]>> \o C22_WithoutMatches(s, i + 1)

\* C22 as claimed: a regex-remove rule deletes the first match of its
\* pattern in the working name and leaves the later matches in place.
C22_DeletesFirstMatch ==
  C22_RegexRule =>
    call.ret = RevertIfEmpty(Strip(C22_WithoutFirst(Basename(call.arg))), call.arg)

\* C22, amended: a regex-remove rule deletes every match of its pattern in
\* the working name (the non-overlapping matches found from left to right),
\* not only the first.
C22_DeletesEveryMatch ==
  C22_RegexRule =>
    call.ret = RevertIfEmpty(Strip(C22_WithoutMatches(Basename(call.arg), 1)), call.arg)

\* The rule with the pattern ".1" turns s_1_1, which holds two matches, into s.
C22_Witness ==
  /\ C22_RegexRule
  /\ loaded.fn_clean_exts[1].pattern = <<".", "1">>
  /\ call.arg = <<"s", "_", "1", "_", "1">>
  /\ call.ret = <<"s">>

\* The working name of the call after the clean rules, the trim rules and
\* the stripping of whitespace.
C23_Working ==
  Strip(RunTrim(loaded, loaded.fn_clean_trim,
                RunRules(loaded, input.anchor, loaded.fn_clean_exts,
                         StartName(loaded, call.arg, C17_Ctx, loaded.prepend_dirs)).name))

\* C23: when cleaning a str name leaves the empty string after the clean
\* rules, the trim rules and the stripping, clean_s_name goes back to the
\* raw s_name of the call (not the filename, the basename or the prefixed
\* name), and what it returns is the replacement rules applied to that.
C23_RevertsToRawInput ==
  (IsScalarCall /\ call.raised = "" /\ C23_Working = <<>>)
    => call.ret = ApplyReplace(loaded, 1, call.arg)

\* The rule that removes "s" empties the basename of a/s, and a/s is
\* returned.
C23_Witness ==
  /\ IsScalarCall
  /\ call.raised = ""
  /\ C23_Working = <<>>
  /\ call.arg = <<"a", "/", "s">>
  /\ Basename(call.arg) = <<"s">>
  /\ call.ret = <<"a", "/", "s">>

\* A name that the stripping emptied is restored and then replaced: " "
\* with the regex rule "." -> "a" gives "a".
C23_ReplacedWitness ==
  /\ IsScalarCall
  /\ call.raised = ""
  /\ C23_Working = <<>>
  /\ call.arg = <<" ">>
  /\ call.ret = <<"a">>

\* One plain-string rule on the current name, as the claim words it.
C18_Rule(name, rule) ==
  IF loaded.sample_names_replace_exact /\ name # rule.search THEN name
  ELSE IF loaded.sample_names_replace_complete
    THEN (IF \E i \in 0..(Len(name) - Len(rule.search)) :
               SubSeq(name, i + 1, i + Len(rule.search)) = rule.search
            THEN rule.replace ELSE name)
  ELSE StrReplace(name, rule.search, rule.replace)

RECURSIVE C18_Rules(_, _)
\* The rules from rule i on, each on the name the one before left.
C18_Rules(i, name) ==
  IF i > Len(loaded.sample_names_replace) THEN name
  ELSE C18_Rules(i + 1, C18_Rule(name, loaded.sample_names_replace[i]))

\* C18: in plain-string mode a rule leaves the current name unchanged where
\* exact matching is set and its search term is not the name; with the
\* complete name swap set a rule whose search term occurs in the name
\* replaces the whole name by its replacement, and one whose search term
\* does not occur leaves the name unchanged.  Read on calls with no clean
\* rule, trim rule and directory prefix.
C18_PlainReplacement ==
  (/\ IsScalarCall
   /\ call.raised = ""
   /\ ~loaded.sample_names_replace_regex
   /\ loaded.fn_clean_exts = <<>>
   /\ loaded.fn_clean_trim = <<>>
   /\ ~loaded.prepend_dirs)
    => call.ret = C18_Rules(1, RevertIfEmpty(Strip(Basename(call.arg)), call.arg))

\* With the complete name swap the rule s -> x makes s_1 the name x.
C18_Witness ==
  /\ IsScalarCall
  /\ ~loaded.sample_names_replace_regex
  /\ loaded.sample_names_replace_complete
  /\ ~loaded.sample_names_replace_exact
  /\ loaded.sample_names_replace = <<[search |-> <<"s">>, replace |-> <<"x">>]>>
  /\ call.arg = <<"s", "_", "1">>
  /\ call.ret = <<"x">>

(***************************************************************************)
(* Claims on groups_for_sample                                             *)
(***************************************************************************)
IsLabelCall == call.op = "groups_for_sample"

C13_Groups == loaded.generalstats_sample_merge_groups

\* The name cleaned with the rules of label k alone, no trim rule and no
\* directory prefix.
C13_Stripped(k) ==
  CleanScalar(loaded, input.anchor, call.arg, NoCtx, C13_Groups[k].exts, <<>>, FALSE)

\* Label k has rules, and cleaning with them changes the name or fails.
C13_Decides(k) ==
  /\ C13_Groups[k].exts # <<>>
  /\ C13_Stripped(k).raised # "" \/ C13_Stripped(k).name # call.arg

C13_First ==
  CHOOSE k \in 1..Len(C13_Groups) : C13_Decides(k) /\ \A j \in 1..(k - 1) : ~C13_Decides(j)

\* The stripped name cleaned under the default configured rules.
C13_Rest ==
  CleanSName(loaded, input.anchor,
             [list |-> FALSE, val |-> C13_Stripped(C13_First).name], NoCtx)

\* C13: groups_for_sample returns (name, none) without a group-label
\* configuration; otherwise the first label, in insertion order, whose rule
\* set changes the name wins: the label returned is that label and the
\* group name is clean_s_name of the stripped name under the default rules,
\* no later label being tested; if no label changes the name the result is
\* (name, none).
C13_FirstLabelWins ==
  IsLabelCall =>
    IF ~\E k \in 1..Len(C13_Groups) : C13_Decides(k)
      THEN call.raised = "" /\ call.ret = [group |-> call.arg, label |-> None]
    ELSE IF C13_Stripped(C13_First).raised # ""
      THEN call.raised = C13_Stripped(C13_First).raised
    ELSE /\ call.raised = C13_Rest.raised
         /\ call.raised = ""
              => call.ret = [group |-> C13_Rest.name,
                             label |-> Some(C13_Groups[C13_First].label)]

\* y_1_R1 takes the first label R1, though the later label R would change
\* it too and the rule of the last label X is malformed, and its group is
\* y, the stripped name y_1 cleaned by the default rule.
C13_Witness ==
  /\ IsLabelCall
  /\ call.raised = ""
  /\ call.arg = <<"y", "_", "1", "_", "R", "1">>
  /\ Len(C13_Groups) = 3
  /\ C13_Decides(1) /\ C13_Decides(2) /\ C13_Decides(3)
  /\ loaded.fn_clean_exts = <<StrRule(<<"_">>)>>
  /\ call.ret = [group |-> <<"y">>, label |-> Some(R1Label)]

\* C20 as claimed: groups_for_sample gives a sample the label L only where
\* a rule of L's rule set matches the name, i.e. where applying the rule
\* set changes it.
C20_LabelOnlyOnMatch ==
  (IsLabelCall /\ call.raised = "" /\ call.ret.label.some) =>
    \E k \in 1..Len(C13_Groups) :
      /\ C13_Groups[k].label = call.ret.label.val
      /\ ApplyExts(C13_Groups[k].exts, 1, call.arg, input.anchor).name # call.arg

(***************************************************************************)
(* Claims on group_samples_names and group_samples_and_average_metrics     *)
(***************************************************************************)
IsNamesCall == call.op = "group_samples_names"

IsAggCall == call.op = "group_samples_and_average_metrics"

\* The value of a column of a sample's row where it is an int or a float (a
\* bool is an int), 0 where it is anything else.
C2_Number(s, col) ==
  IF col \in DOMAIN input.data[s] /\ input.data[s][col].t \in {"num", "bool"}
    THEN input.data[s][col].num
    ELSE 0

C2_IsNumber(s, col) ==
  col \in DOMAIN input.data[s] /\ input.data[s][col].t \in {"num", "bool"}

C2_WeightSum(members, wcol) ==
  SumSeq([j \in 1..Len(members) |-> C2_Number(members[j].original, wcol)])

C2_ProductSum(members, col, wcol) ==
  SumSeq([j \in 1..Len(members) |->
            IF C2_IsNumber(members[j].original, col) /\ C2_IsNumber(members[j].original, wcol)
              THEN C2_Number(members[j].original, col) * C2_Number(members[j].original, wcol)
              ELSE 0])

\* The columns a group of two or more members is read at.
C2_ColumnsRead(members) ==
  LET wa == input.policy.cols_to_weighted_average
  IN  {wa[i][2] : i \in 1..Len(wa)}
        \cup {wa[i][1] : i \in {j \in 1..Len(wa) : C2_WeightSum(members, wa[j][2]) > 0}}
        \cup {input.policy.cols_to_average[i] : i \in 1..Len(input.policy.cols_to_average)}
        \cup {input.policy.cols_to_sum[i] : i \in 1..Len(input.policy.cols_to_sum)}

\* C2: for a weighted-average pair (valueCol, weightCol) of a group of two
\* or more members, weightSum being the sum of the members' numeric weights:
\* if weightSum > 0 the merged valueCol is the sum of value * weight over
\* the members (0 for a member whose value or weight is not numeric) divided
\* by weightSum, and if weightSum = 0 the merged row has no valueCol; the
\* call raises only where a member's row lacks a column it is read at, so a
\* zero weightSum is no error.
C2_WeightedAverage ==
  IsAggCall =>
    /\ call.raised = "" =>
         \A k \in 1..Len(call.groups) :
           Len(call.groups[k].members) >= 2 =>
             \A i \in 1..Len(input.policy.cols_to_weighted_average) :
               LET col == input.policy.cols_to_weighted_average[i][1]
                   wcol == input.policy.cols_to_weighted_average[i][2]
                   weightSum == C2_WeightSum(call.groups[k].members, wcol)
                   merged == call.emitted[k].rows[1]
               IN  /\ merged.merged
                   /\ IF weightSum > 0
                        THEN /\ col \in DOMAIN merged.data
                             /\ merged.data[col].t = "num"
                             /\ merged.data[col].num * weightSum
                                  = C2_ProductSum(call.groups[k].members, col, wcol)
                                      * merged.data[col].den
                        ELSE col \notin DOMAIN merged.data
    /\ call.raised = "KeyError" =>
         \E k \in 1..Len(call.groups) :
           /\ Len(call.groups[k].members) >= 2
           /\ \E j \in 1..Len(call.groups[k].members) :
                \E c \in C2_ColumnsRead(call.groups[k].members) :
                  c \notin DOMAIN input.data[call.groups[k].members[j].original]

\* cov 10 and 20 with reads 100 and 300 merge to cov 17.5 = 35/2.
C2_Witness ==
  /\ IsAggCall
  /\ call.raised = ""
  /\ input.policy.cols_to_weighted_average = <<<<"cov", "reads">>>>
  /\ \E k \in 1..Len(call.groups) :
       /\ Len(call.groups[k].members) = 2
       /\ input.data[call.groups[k].members[1].original].cov = NumV(10)
       /\ input.data[call.groups[k].members[1].original].reads = NumV(100)
       /\ input.data[call.groups[k].members[2].original].cov = NumV(20)
       /\ input.data[call.groups[k].members[2].original].reads = NumV(300)
       /\ 2 * call.emitted[k].rows[1].data.cov.num = 35 * call.emitted[k].rows[1].data.cov.den

\* C3 as claimed: group_samples_and_average_metrics does not raise where a
\* member's row lacks a column the grouping policy names.
C3_MissingColumnNeverRaises == IsAggCall => call.raised # "KeyError"

\* C4 as claimed: a group of one member gives exactly one row, which is not
\* merged, carries the member's own name and data, and is keyed by the
\* member's own name.
C4_KeyedByOwnName ==
  (IsAggCall /\ call.raised = "") =>
    \A k \in 1..Len(call.groups) :
      Len(call.groups[k].members) = 1 =>
        LET m == call.groups[k].members[1]
        IN  /\ call.emitted[k].key = m.original
            /\ call.emitted[k].rows
                 = <<[sample |-> m.original, data |-> input.data[m.original],
                      merged |-> FALSE]>>

\* C4 amended: a group of one member gives exactly one row, which is not
\* merged and carries the member's data unchanged; the row's sample name and
\* its key are the group's name, which is the member's own name where no
\* label matched it.
C4_KeyedByGroupName ==
  (IsAggCall /\ call.raised = "") =>
    \A k \in 1..Len(call.groups) :
      Len(call.groups[k].members) = 1 =>
        LET m == call.groups[k].members[1]
        IN  /\ call.emitted[k].key = call.groups[k].group
            /\ call.emitted[k].rows
                 = <<[sample |-> call.groups[k].group, data |-> input.data[m.original],
                      merged |-> FALSE]>>
            /\ ~m.label.some => call.groups[k].group = m.original

\* x_R1 alone in its group is emitted under the group's name x.
C4_Witness ==
  /\ IsAggCall
  /\ call.raised = ""
  /\ \E k \in 1..Len(call.groups) :
       /\ Len(call.groups[k].members) = 1
       /\ call.groups[k].members[1].original = <<"x", "_", "R", "1">>
       /\ call.groups[k].members[1].label = Some(R1Label)
       /\ call.emitted[k].key = <<"x">>
       /\ Len(call.emitted[k].rows) = 1
       /\ call.emitted[k].rows[1].sample = <<"x">>

C5_Originals(groups) ==
  Flatten([k \in 1..Len(groups) |->
             [j \in 1..Len(groups[k].members) |-> groups[k].members[j].original]])

\* C5: group_samples_names partitions its input: the member lists of the
\* groups hold every input name exactly once and no other name.
C5_Partition ==
  (IsNamesCall /\ call.raised = "") =>
    LET all == C5_Originals(call.ret)
    IN  /\ {all[i] : i \in 1..Len(all)} = DOMAIN input.data
        /\ Len(all) = Cardinality(DOMAIN input.data)
        /\ \A k \in 1..Len(call.ret) : Len(call.ret[k].members) >= 1

\* Three samples in two groups, one of them of two members.
C5_Witness ==
  /\ IsNamesCall
  /\ call.raised = ""
  /\ Cardinality(DOMAIN input.data) = 3
  /\ Len(call.ret) = 2
  /\ \E k \in 1..2 :
       /\ Len(call.ret[k].members) = 2
       /\ call.ret[k].members[1].label # call.ret[k].members[2].label

\* C6 as claimed: in the result of group_samples_names a sample no label
\* matched is the only member of its group.
C6_UnlabeledAlone ==
  (IsNamesCall /\ call.raised = "") =>
    \A k \in 1..Len(call.ret) :
      \A j \in 1..Len(call.ret[k].members) :
        ~call.ret[k].members[j].label.some => Len(call.ret[k].members) = 1

\* C8 as claimed: the configuration is what it was when loaded after any
\* sequence of clean_s_name, groups_for_sample, group_samples_names and
\* group_samples_and_average_metrics calls.
C8_ConfigReadOnly == config = loaded

\* C14 as claimed: the merged row of a group of two or more members is
\* named with the group name, with " (grouped)" appended where the group
\* name is the name of a sample of the input, and so is never named like a
\* sample of the input.
C14_MergedNameIsNew ==
  (IsAggCall /\ call.raised = "") =>
    \A k \in 1..Len(call.groups) :
      Len(call.groups[k].members) >= 2 =>
        /\ call.emitted[k].rows[1].merged
        /\ call.emitted[k].rows[1].sample
             = IF call.groups[k].group \in DOMAIN input.data
                 THEN call.groups[k].group \o <<" ", "(", "g", "r", "o", "u", "p", "e", "d", ")">>
                 ELSE call.groups[k].group
        /\ call.emitted[k].rows[1].sample \notin DOMAIN input.data

\* C15: each sum column of a group of two or more members holds, in the
\* merged row, the sum of the members' numeric values of the column, a
\* value that is not numeric counting 0, whether the column is a weight
\* column, whose sum is reused, or not.
C15_SumColumns ==
  (IsAggCall /\ call.raised = "") =>
    \A k \in 1..Len(call.groups) :
      Len(call.groups[k].members) >= 2 =>
        \A i \in 1..Len(input.policy.cols_to_sum) :
          LET col == input.policy.cols_to_sum[i]
              merged == call.emitted[k].rows[1].data
          IN  /\ col \in DOMAIN merged
              /\ merged[col].t = "num"
              /\ merged[col].num
                   = C2_WeightSum(call.groups[k].members, col) * merged[col].den

\* reads 100 and 300 merge to reads 400, reads being the weight column of
\* the pair (cov, reads).
C15_Witness ==
  /\ IsAggCall
  /\ call.raised = ""
  /\ input.policy.cols_to_weighted_average = <<<<"cov", "reads">>>>
  /\ input.policy.cols_to_sum = <<"reads">>
  /\ \E k \in 1..Len(call.groups) :
       /\ Len(call.groups[k].members) = 2
       /\ input.data[call.groups[k].members[1].original].reads = NumV(100)
       /\ input.data[call.groups[k].members[2].original].reads = NumV(300)
       /\ call.emitted[k].rows[1].data.reads = NumV(400)

\* The columns the grouping policy names.
C16_PolicyColumns ==
  LET wa == input.policy.cols_to_weighted_average
  IN  {wa[i][1] : i \in 1..Len(wa)} \cup {wa[i][2] : i \in 1..Len(wa)}
        \cup {input.policy.cols_to_average[i] : i \in 1..Len(input.policy.cols_to_average)}
        \cup {input.policy.cols_to_sum[i] : i \in 1..Len(input.policy.cols_to_sum)}

\* C16: the merged row of a group holds no column outside the three policy
\* lists, and the rows emitted after it are the members' rows, one each,
\* with all their columns.
C16_MergedColumns ==
  (IsAggCall /\ call.raised = "") =>
    \A k \in 1..Len(call.groups) :
      Len(call.groups[k].members) >= 2 =>
        /\ call.emitted[k].rows[1].merged
        /\ DOMAIN call.emitted[k].rows[1].data \subseteq C16_PolicyColumns
        /\ Len(call.emitted[k].rows) = 1 + Len(call.groups[k].members)
        /\ \A j \in 1..Len(call.groups[k].members) :
             /\ ~call.emitted[k].rows[j + 1].merged
             /\ call.emitted[k].rows[j + 1].data
                  = input.data[call.groups[k].members[j].original]

\* The members have a column "other" that the policy does not name: the
\* merged row has cov and reads and no "other".
C16_Witness ==
  /\ IsAggCall
  /\ call.raised = ""
  /\ "other" \notin C16_PolicyColumns
  /\ \E k \in 1..Len(call.groups) :
       /\ Len(call.groups[k].members) = 2
       /\ DOMAIN call.emitted[k].rows[1].data = {"cov", "reads"}
       /\ "other" \in DOMAIN call.emitted[k].rows[2].data
       /\ "other" \in DOMAIN call.emitted[k].rows[3].data


\* The members of all groups of the call.
C24_AllMembers ==
  UNION {{call.groups[k].members[j] : j \in 1..Len(call.groups[k].members)} :
           k \in 1..Len(call.groups)}

C24_Label(name) == (CHOOSE m \in C24_AllMembers : m.original = name).label

C24_Sorted == SortedSeq(DOMAIN input.data)

C24_Pos(name) == CHOOSE i \in 1..Len(C24_Sorted) : C24_Sorted[i] = name

\* Where a label appears first in the sorted sample names.
C24_FirstPos(label) ==
  CHOOSE i \in 1..Len(C24_Sorted) :
    /\ C24_Label(C24_Sorted[i]) = label
    /\ \A j \in 1..(i - 1) : C24_Label(C24_Sorted[j]) # label

\* Member order: by the first appearance of the label, then by name.
C24_Before(a, b) ==
  \/ C24_FirstPos(C24_Label(a)) < C24_FirstPos(C24_Label(b))
  \/ C24_Label(a) = C24_Label(b) /\ C24_Pos(a) < C24_Pos(b)

\* C24: the list built for a group of two or more members is the merged row
\* followed by one row per member, each with the member's display name and
\* the member's own data, the members ordered by label, labels in order of
\* first appearance over the sorted sample names, and by original name
\* within a label.
C24_MemberOrder ==
  (IsAggCall /\ call.raised = "") =>
    \A k \in 1..Len(call.groups) :
      Len(call.groups[k].members) >= 2 =>
        /\ Len(call.emitted[k].rows) = 1 + Len(call.groups[k].members)
        /\ call.emitted[k].rows[1].merged
        /\ call.emitted[k].rows[1].sample = call.emitted[k].key
        /\ \A j \in 1..Len(call.groups[k].members) :
             /\ call.emitted[k].rows[j + 1]
                  = [sample |-> call.groups[k].group \o <<" ", "(">>
                                  \o LabelText(call.groups[k].members[j].label) \o <<")">>,
                     data |-> input.data[call.groups[k].members[j].original],
                     merged |-> FALSE]
             /\ \A i \in 1..(j - 1) :
                  C24_Before(call.groups[k].members[i].original,
                             call.groups[k].members[j].original)

\* The samples a_R2, x_R1 and x_R2: the label R2 appears first, and the
\* group x is the merged row, then x (R2), then x (R1).
C24_Witness ==
  /\ IsAggCall
  /\ call.raised = ""
  /\ DOMAIN input.data = {<<"a", "_", "R", "2">>, <<"x", "_", "R", "1">>, <<"x", "_", "R", "2">>}
  /\ \E k \in 1..Len(call.groups) :
       /\ call.groups[k].group = <<"x">>
       /\ Len(call.emitted[k].rows) = 3
       /\ call.emitted[k].rows[1].merged
       /\ call.emitted[k].rows[2].sample = <<"x", " ", "(", "R", "2", ")">>
       /\ call.emitted[k].rows[3].sample = <<"x", " ", "(", "R", "1", ")">>

\* The rows of the returned dict that are not merged rows.
C25_SampleRows ==
  {<<i, j>> \in (1..Len(call.ret)) \X (1..(MaxSamples + 2)) :
     j <= Len(call.ret[i].rows) /\ ~call.ret[i].rows[j].merged}

\* C25 as claimed: group_samples_and_average_metrics loses no sample.  No
\* key is assigned twice, so the returned dict holds, for every group, the
\* list built for it, and its per-sample rows are as many as the samples of
\* the input, one for each member of each group.
C25_NoSampleLost ==
  (IsAggCall /\ call.raised = "") =>
    /\ \A k, l \in 1..Len(call.emitted) : k # l => call.emitted[k].key # call.emitted[l].key
    /\ Len(call.ret) = Len(call.groups)
    /\ \A k \in 1..Len(call.emitted) :
         \E i \in 1..Len(call.ret) : call.ret[i] = call.emitted[k]
    /\ Cardinality(C25_SampleRows) = Cardinality(DOMAIN input.data)

(***************************************************************************)
(* Claims on general_stats_addcols                                         *)
(***************************************************************************)
C19_Data == report.general_stats_data

C19_Headers == report.general_stats_headers

C19_Returned(c) == c.op = "general_stats_addcols" /\ c.raised = ""

\* What a step does to the two lists: a call that returns on a module that
\* does not skip general stats adds one entry at the end of each, the rows
\* and the headers of that call; every other step leaves both as they were.
C19_Step ==
  IF C19_Returned(call') /\ ~call'.skip
    THEN /\ C19_Data' = Append(C19_Data, call'.rows)
         /\ C19_Headers' = Append(C19_Headers, call'.headers)
    ELSE C19_Data' = C19_Data /\ C19_Headers' = C19_Headers

\* C19: general_stats_addcols registers results append-only.  Every call that
\* returns on a module that does not skip general stats appends exactly one
\* rows-by-group entry to report.general_stats_data and exactly one headers
\* entry to report.general_stats_headers, a call on a module that skips
\* general stats (and a call that raises) appends nothing, no call removes or
\* rewrites an earlier entry, and so the two lists always have equal length.
C19_AppendOnly ==
  /\ [](Len(C19_Data) = Len(C19_Headers))
  /\ [][C19_Step]_vars

\* Two modules have each registered an entry and a third call, on a module
\* that skips general stats, has returned.
C19_Witness ==
  /\ C19_Returned(call) /\ call.skip
  /\ Len(C19_Data) = 2 /\ Len(C19_Headers) = 2
  /\ C19_Data[1] # <<>> /\ C19_Headers[1] # <<>>
  /\ C19_Headers[1][1].namespace # C19_Headers[2][1].namespace

\* A call whose grouping raised has registered nothing after an earlier call
\* registered an entry.
C19_RaisedWitness ==
  /\ call.op = "general_stats_addcols" /\ call.raised # ""
  /\ Len(C19_Data) = 1

(***************************************************************************)
(* Claims on write_data_file                                               *)
(***************************************************************************)
\* C27 as claimed: the filenames handed to report.write_data_file are
\* pairwise distinct after any sequence of write_data_file calls, whatever
\* config.preserve_module_raw_data is.
C27_DistinctFilenames ==
  \A i, j \in 1..Len(report.data_files) :
    i # j => report.data_files[i].fn # report.data_files[j].fn

\* With config.preserve_module_raw_data set the filenames are distinct and
\* every file written keeps its entry in report.saved_raw_data.
C27_DistinctWhenPreserved ==
  config.preserve_module_raw_data =>
    /\ C27_DistinctFilenames
    /\ report.saved_raw_data = {report.data_files[i] : i \in 1..Len(report.data_files)}

\* The name f asked for three times with the flag set: f, f_1 and f_2.
C27_PreservedWitness ==
  /\ config.preserve_module_raw_data
  /\ Len(report.data_files) = 3
  /\ report.data_files[1].fn = <<"f">>
  /\ report.data_files[2].fn = <<"f", "_", "1">>
  /\ report.data_files[3].fn = <<"f", "_", "2">>
  /\ call.op = "write_data_file" /\ call.requested = <<"f">>

====
